---- MODULE Spec2Model ----
(***************************************************************************)
(* Model of the paginated-fetch, date-window-filter and failure-tolerant   *)
(* aggregation engine of ado_pr_contribution.py (single- and multi-project *)
(* entry point) and org_pr_count.py (organization-wide entry point).       *)
(*                                                                         *)
(* The run is sequential.  One action is one blocking step of main(): the  *)
(* credential acquisition, a listing call, one iteration of the page loop  *)
(* (request, filter, loop decision), the return of a project's fetch, the  *)
(* report.  The answers of the source API are the inputs: the repository   *)
(* contents are fixed by Init, the failure of a call is chosen when the    *)
(* call is made.                                                           *)
(***************************************************************************)
EXTENDS Integers, Sequences, FiniteSets, TLC

VARIABLES
    mode,               \* "single" | "multi" | "org": which main() runs, and with how many projects
    use_creation_date,  \* USE_CREATION_DATE, handed down as use_creation_date
    start_date,         \* get_date_range(...)[0], as a calendar date
    end_date,           \* get_date_range(...)[1], as a calendar date
    server,             \* the source: sequence of projects, each with its repositories and their PRs
    projects,           \* main's `projects`: names given by the caller, or listed by get_all_projects
    pi,                 \* index of the project being processed (enumerate(projects))
    repositories,       \* get_all_pull_requests / count_project_prs: `repositories`
    ri,                 \* index of the repository being processed
    skip,               \* `skip` of the page loop
    repo_pr_count,      \* `repo_pr_count`
    repo_has_data,      \* `repo_has_data`
    repos_with_prs,     \* `repos_with_prs`
    repos_skipped,      \* `repos_skipped`
    all_prs,            \* get_all_pull_requests: `all_prs` of the project being fetched
    total_pr_count,     \* count_project_prs: `total_pr_count` of the project being counted
    prs,                \* ado main: `prs` / fetch_prs_from_multiple_projects: its `all_prs`
    project_counts,     \* org main: `project_counts`, as a sequence of <<name, count>> in insertion order
    total_prs,          \* org main: `total_prs`
    pc,                 \* position of the run
    exit_code,          \* -1 while running, then the process exit code
    output,             \* what the run wrote on standard output: "none" | "no_data" | "report"
    log,                \* the calls made for the unit in progress: its first call and the page requests after it
    faults,             \* number of failing calls so far
    fn,                 \* "main", or the function called on its own
    arg,                \* the arguments of a function called on its own
    ret                 \* its result, once it has returned

vars == << mode, use_creation_date, start_date, end_date, server, projects, pi,
           repositories, ri, skip, repo_pr_count, repo_has_data, repos_with_prs,
           repos_skipped, all_prs, total_pr_count, prs, project_counts, total_prs,
           pc, exit_code, output, log, faults, fn, arg, ret >>

(***************************************************************************)
(* Bounds of the model.                                                    *)
(***************************************************************************)
MaxProjects == 2    \* projects of the organization / of the caller's list
MaxFaults == 2      \* failing calls in one run
MaxFracDigits == 8  \* fractional digits of a timestamp normalised on its own
MaxPrs == 2         \* pull requests of the lists analysed on their own, all combinations
MaxAuthors == 12    \* authors of the long lists analysed on their own
MaxSkip == 300      \* offsets of a page loop the model follows (the loops end below)

(***************************************************************************)
(* Program constants.                                                      *)
(***************************************************************************)
batch_size == 100

Min(a, b) == IF a < b THEN a ELSE b

(***************************************************************************)
(* Calendar dates, as datetime.date: <<year, month, day>>, ordered         *)
(* chronologically.                                                        *)
(***************************************************************************)
DateLT(a, b) ==
    \/ a[1] < b[1]
    \/ a[1] = b[1] /\ a[2] < b[2]
    \/ a[1] = b[1] /\ a[2] = b[2] /\ a[3] < b[3]

DateLE(a, b) == a = b \/ DateLT(a, b)

(***************************************************************************)
(* Timestamps of the source, by their parts.  kind "iso" is                *)
(*   <date>T<time>[.<fraction digits>][<zone>]                             *)
(* with the fraction a sequence of digits and the zone "Z", "+00:00",      *)
(* "+05:30", "-05:00" or "" (none); kind "garbage" is a string that is no  *)
(* timestamp; kind "absent" is a record without the key (or with a null    *)
(* value where .get is used).                                              *)
(***************************************************************************)
NoDate == <<0, 0, 0>>

Iso(d, f, z) == [kind |-> "iso", date |-> d, frac |-> f, zone |-> z]
Garbage == [kind |-> "garbage", date |-> NoDate, frac |-> <<>>, zone |-> ""]
Absent == [kind |-> "absent", date |-> NoDate, frac |-> <<>>, zone |-> ""]

\* the zones written with a '+'
PlusZones == {"+00:00", "+05:30"}

\* date_field.replace('Z', '+00:00'), then the fraction cut to its first 6
\* digits when the string holds a '.' and a '+' (`if '.' in clean_date and
\* '+' in clean_date`, rsplit('+', 1), rsplit('.', 1), microseconds[:6])
CleanDate(ts) ==
    IF ts.kind # "iso" THEN ts
    ELSE LET zone == IF ts.zone = "Z" THEN "+00:00" ELSE ts.zone
             hasPlus == zone \in PlusZones
             frac == IF ts.frac # <<>> /\ hasPlus /\ Len(ts.frac) > 6
                     THEN SubSeq(ts.frac, 1, 6) ELSE ts.frac
         IN  [ts EXCEPT !.zone = zone, !.frac = frac]

\* datetime.fromisoformat(clean_date) of Python 3.7 to 3.10: raises
\* ValueError on a string that is no ISO timestamp, on a 'Z' and on a
\* fraction that has not exactly 3 or 6 digits.
FromIsoFormatOk(clean) ==
    /\ clean.kind = "iso"
    /\ clean.zone # "Z"
    /\ Len(clean.frac) \in {0, 3, 6}

\* datetime.fromisoformat(clean_date) from Python 3.11 on: any fraction (cut
\* to microseconds) and 'Z' are read as well.
FromIsoFormatOk311(clean) ==
    clean.kind = "iso"

\* datetime.fromisoformat(clean_date).date()
ParsedDate(ts) == CleanDate(ts).date
Parses(ts) == FromIsoFormatOk(CleanDate(ts))

(***************************************************************************)
(* The membership test `start_dt <= pr_date < end_dt`.                     *)
(***************************************************************************)
\* (a closed window: the slip `<=` for `<` at the end)
InRange_closed(pr_date, start_dt, end_dt) ==
    DateLE(start_dt, pr_date) /\ DateLE(pr_date, end_dt)

InRange(pr_date, start_dt, end_dt) ==
    DateLE(start_dt, pr_date) /\ DateLT(pr_date, end_dt)

(***************************************************************************)
(* Strings.  The arguments of the command line and the dates of the window *)
(* are strings; a string is written as the sequence of its characters, so  *)
(* that int(), the format specifications and fromisoformat() are computed. *)
(***************************************************************************)
DigitChars == << "0", "1", "2", "3", "4", "5", "6", "7", "8", "9" >>

IsDigits(s) == s # <<>> /\ \A i \in 1..Len(s) : \E d \in 1..Len(DigitChars) : DigitChars[d] = s[i]

DigitValue(c) == (CHOOSE d \in 1..Len(DigitChars) : DigitChars[d] = c) - 1

RECURSIVE DigitsValue(_)
DigitsValue(s) ==
    IF s = <<>> THEN 0
    ELSE 10 * DigitsValue(SubSeq(s, 1, Len(s) - 1)) + DigitValue(s[Len(s)])

\* int(s): the value of a string of decimal digits, leading zeros allowed;
\* ValueError (ok = FALSE) for the empty string and for a string with a
\* letter, a comma, a hyphen or an inner space
int(s) == [ok |-> IsDigits(s), value |-> IF IsDigits(s) THEN DigitsValue(s) ELSE 0]

RECURSIVE Decimal(_)
Decimal(n) ==
    IF n < 10 THEN << DigitChars[n + 1] >>
    ELSE Decimal(n \div 10) \o << DigitChars[(n % 10) + 1] >>

\* f"{n:0<width>d}": the decimal digits of n, padded with zeros to width
Format(n, width) ==
    LET digits == Decimal(n)
    IN  IF Len(digits) >= width THEN digits
        ELSE [i \in 1..(width - Len(digits)) |-> "0"] \o digits

\* None, where the code passes None for a string
None == << "None" >>

(***************************************************************************)
(* Calendar dates are <<year, month, day>>.                                *)
(***************************************************************************)
IsLeap(y) == (y % 4 = 0 /\ y % 100 # 0) \/ y % 400 = 0

DaysInMonth(y, m) ==
    IF m = 2 THEN (IF IsLeap(y) THEN 29 ELSE 28)
    ELSE IF m \in {4, 6, 9, 11} THEN 30 ELSE 31

\* now + timedelta(days=1)
NextDay(d) ==
    IF d[3] < DaysInMonth(d[1], d[2]) THEN <<d[1], d[2], d[3] + 1>>
    ELSE IF d[2] < 12 THEN <<d[1], d[2] + 1, 1>>
    ELSE <<d[1] + 1, 1, 1>>

\* d.strftime('%Y-%m-%d')
strftime(d) ==
    Format(d[1], 4) \o << "-" >> \o Format(d[2], 2) \o << "-" >> \o Format(d[3], 2)

\* datetime.fromisoformat(s).date() for a date string: YYYY-MM-DD with a
\* month and a day of the calendar; ValueError (ok = FALSE) otherwise
fromisoformat_date(s) ==
    LET shaped == /\ Len(s) = 10
                  /\ s[5] = "-" /\ s[8] = "-"
                  /\ IsDigits(SubSeq(s, 1, 4))
                  /\ IsDigits(SubSeq(s, 6, 7))
                  /\ IsDigits(SubSeq(s, 9, 10))
        y == DigitsValue(SubSeq(s, 1, 4))
        m == DigitsValue(SubSeq(s, 6, 7))
        d == DigitsValue(SubSeq(s, 9, 10))
        ok == shaped /\ y >= 1 /\ m \in 1..12 /\ d >= 1 /\ d <= DaysInMonth(y, m)
    IN  [ok |-> ok, value |-> IF ok THEN <<y, m, d>> ELSE NoDate]

(***************************************************************************)
(* The validation and the date range of ado_pr_contribution.py.  A result  *)
(* with exit = TRUE is sys.exit(1).                                        *)
(***************************************************************************)
validate_year_input(year) ==
    LET year_int == int(year)
    IN  IF year_int.ok /\ ~(year_int.value < 2000 \/ year_int.value > 2030)
        THEN [exit |-> FALSE, year |-> Format(year_int.value, 4)]
        ELSE [exit |-> TRUE, year |-> None]

\* a variant of the validation that does not look at the month's range
validate_date_inputs_year_only(year, month) ==
    LET year_int == int(year)
        month_int == int(month)
    IN  IF /\ year_int.ok /\ month_int.ok
           /\ ~(year_int.value < 2000 \/ year_int.value > 2030)
        THEN [exit |-> FALSE, year |-> Format(year_int.value, 4),
              month |-> Format(month_int.value, 2)]
        ELSE [exit |-> TRUE, year |-> None, month |-> None]

validate_date_inputs(year, month) ==
    LET year_int == int(year)
        month_int == int(month)
    IN  IF /\ year_int.ok /\ month_int.ok
           /\ ~(year_int.value < 2000 \/ year_int.value > 2030)
           /\ ~(month_int.value < 1 \/ month_int.value > 12)
        THEN [exit |-> FALSE, year |-> Format(year_int.value, 4),
              month |-> Format(month_int.value, 2)]
        ELSE [exit |-> TRUE, year |-> None, month |-> None]

\* the window as the resolvers return it: two strings, or sys.exit(1)
Window(start, end) == [exit |-> FALSE, start_date |-> start, end_date |-> end]

NoWindow == [exit |-> TRUE, start_date |-> None, end_date |-> None]

\* ado_pr_contribution.get_date_range; `now` is datetime.now()
get_date_range(year, month, use_current_month, use_whole_year, now) ==
    IF use_current_month
    THEN Window(strftime(<<now[1], now[2], 1>>), strftime(NextDay(now)))
    ELSE IF use_whole_year
    THEN LET v == validate_year_input(year)
         IN  IF v.exit THEN NoWindow
             ELSE Window(v.year \o << "-", "0", "1", "-", "0", "1" >>,
                         Format(int(v.year).value + 1, 4) \o << "-", "0", "1", "-", "0", "1" >>)
    ELSE LET v == validate_date_inputs(year, month)
         IN  IF v.exit THEN NoWindow
             ELSE Window(v.year \o << "-" >> \o v.month \o << "-", "0", "1" >>,
                         IF v.month = << "1", "2" >>
                         THEN Format(int(v.year).value + 1, 4) \o << "-", "0", "1", "-", "0", "1" >>
                         ELSE v.year \o << "-" >> \o Format(int(v.month).value + 1, 2)
                                     \o << "-", "0", "1" >>)

\* org_pr_count.get_date_range: the year as it was typed, the month through
\* int(); its caller has checked that int() reads both
org_get_date_range(year, month, use_current_month, use_whole_year, now) ==
    IF use_current_month
    THEN Window(strftime(<<now[1], now[2], 1>>), strftime(NextDay(now)))
    ELSE IF use_whole_year
    THEN Window(year \o << "-", "0", "1", "-", "0", "1" >>,
                Format(int(year).value + 1, 4) \o << "-", "0", "1", "-", "0", "1" >>)
    ELSE Window(year \o << "-" >> \o Format(int(month).value, 2) \o << "-", "0", "1" >>,
                IF int(month).value = 12
                THEN Format(int(year).value + 1, 4) \o << "-", "0", "1", "-", "0", "1" >>
                ELSE year \o << "-" >> \o Format(int(month).value + 1, 2) \o << "-", "0", "1" >>)

(***************************************************************************)
(* parse_arguments.  argv is sys.argv[1:]; a result with exit = TRUE is    *)
(* the usage or error message and sys.exit(1).                             *)
(***************************************************************************)
DEFAULT_PROJECT == << "i", "c", ".", "c", "l", "o", "u", "d", "-", "c", "o", "r", "e" >>

\* the arguments that are no verbosity flag, and the level the flags set
Flags == { << "-", "v" >>, << "-", "v", "v" >> }

Positional(argv) == SelectSeq(argv, LAMBDA a : a \notin Flags)

Verbosity(argv) ==
    LET flags == SelectSeq(argv, LAMBDA a : a \in Flags)
    IN  IF flags = <<>> THEN 0 ELSE Len(flags[Len(flags)]) - 1

\* s.strip(), for blanks
RECURSIVE Strip(_)
Strip(s) ==
    IF s = <<>> THEN s
    ELSE IF s[1] = " " THEN Strip(Tail(s))
    ELSE IF s[Len(s)] = " " THEN Strip(SubSeq(s, 1, Len(s) - 1))
    ELSE s

\* s.split(',')
RECURSIVE Split(_)
Split(s) ==
    IF \A i \in 1..Len(s) : s[i] # ","
    THEN << s >>
    ELSE LET i == CHOOSE k \in 1..Len(s) : s[k] = "," /\ \A l \in 1..(k - 1) : s[l] # ","
         IN  << SubSeq(s, 1, i - 1) >> \o Split(SubSeq(s, i + 1, Len(s)))

\* [p.strip() for p in arg.split(',')]
ProjectNames(a) == [i \in 1..Len(Split(a)) |-> Strip(Split(a)[i])]

\* `year_int = int(arg)` and `2000 <= year_int <= 2030`, ValueError passed over
IsYear(a) == int(a).ok /\ 2000 <= int(a).value /\ int(a).value <= 2030

IsMonth(a) == int(a).ok /\ 1 <= int(a).value /\ int(a).value <= 12

Parsed(names, year, month, use_current_month, use_whole_year, argv) ==
    [exit |-> FALSE, projects |-> names, year |-> year, month |-> month,
     use_current_month |-> use_current_month, use_whole_year |-> use_whole_year,
     VERBOSITY |-> Verbosity(argv)]

Usage(argv) ==
    [exit |-> TRUE, projects |-> <<>>, year |-> None, month |-> None,
     use_current_month |-> FALSE, use_whole_year |-> FALSE, VERBOSITY |-> Verbosity(argv)]

\* ado_pr_contribution.parse_arguments
parse_arguments(argv) ==
    LET args == Positional(argv)
    IN  IF Len(args) = 0
        THEN Parsed(<< DEFAULT_PROJECT >>, None, None, TRUE, FALSE, argv)
        ELSE IF Len(args) = 1
        THEN IF IsYear(args[1])
             THEN Parsed(<< DEFAULT_PROJECT >>, args[1], None, FALSE, TRUE, argv)
             ELSE Parsed(ProjectNames(args[1]), None, None, TRUE, FALSE, argv)
        ELSE IF Len(args) = 2
        THEN IF IsYear(args[1]) /\ IsMonth(args[2])
             THEN Parsed(<< DEFAULT_PROJECT >>, args[1], args[2], FALSE, FALSE, argv)
             ELSE IF IsYear(args[2])
             THEN Parsed(ProjectNames(args[1]), args[2], None, FALSE, TRUE, argv)
             ELSE Usage(argv)
        ELSE IF Len(args) = 3
        THEN Parsed(ProjectNames(args[1]), args[2], args[3], FALSE, FALSE, argv)
        ELSE Usage(argv)

\* org_pr_count.parse_arguments (no project: projects is empty)
org_parse_arguments(argv) ==
    LET args == Positional(argv)
    IN  IF Len(args) = 0
        THEN Parsed(<<>>, None, None, TRUE, FALSE, argv)
        ELSE IF Len(args) = 1
        THEN IF IsYear(args[1])
             THEN Parsed(<<>>, args[1], None, FALSE, TRUE, argv)
             ELSE Usage(argv)
        ELSE IF Len(args) = 2
        THEN IF IsYear(args[1]) /\ IsMonth(args[2])
             THEN Parsed(<<>>, args[1], args[2], FALSE, FALSE, argv)
             ELSE Usage(argv)
        ELSE Usage(argv)

(***************************************************************************)
(* The source.  A repository's pull requests are written as runs of equal  *)
(* records, newest first as the service lists them; ItemsOf numbers them.  *)
(***************************************************************************)
Run(n, c, d) == [n |-> n, created |-> c, closed |-> d]

RECURSIVE CountOf(_)
CountOf(runs) ==
    IF runs = <<>> THEN 0 ELSE Head(runs).n + CountOf(Tail(runs))

\* the i-th record of the listing
RECURSIVE ItemAt(_, _, _)
ItemAt(runs, i, id) ==
    IF i <= Head(runs).n
    THEN [pullRequestId |-> id,
          creationDate |-> Head(runs).created,
          closedDate |-> Head(runs).closed]
    ELSE ItemAt(Tail(runs), i - Head(runs).n, id)

ItemsOf(runs) == [i \in 1..CountOf(runs) |-> ItemAt(runs, i, i)]

\* the page the service returns for ($skip, $top)
PageOf(runs, sk, top) ==
    LET n == Min(top, CountOf(runs) - sk)
    IN  IF n <= 0 THEN <<>> ELSE [i \in 1..n |-> ItemAt(runs, sk + i, sk + i)]

(***************************************************************************)
(* Repositories the runs are checked on.  T(d) is a timestamp as the       *)
(* service writes it: seven fractional digits and a "Z".                   *)
(***************************************************************************)
T(d) == Iso(d, <<1, 2, 3, 4, 5, 6, 7>>, "Z")

d_old == <<2024, 12, 31>>
d_feb == <<2025, 2, 28>>
d_mar1 == <<2025, 3, 1>>
d_mar31 == <<2025, 3, 31>>
d_apr1 == <<2025, 4, 1>>
d_next == <<2026, 1, 1>>

\* no pull request
Empty == <<>>

\* one short page: the window's edges, an unparsable timestamp, a record
\* without completion date
Small ==
    << Run(1, T(d_apr1), T(d_next)),
       Run(1, T(d_mar31), T(d_apr1)),
       Run(1, Garbage, Garbage),
       Run(1, T(d_mar1), T(d_mar31)),
       Run(1, T(d_mar1), Absent),
       Run(1, T(d_feb), T(d_mar1)) >>

\* exactly one full page, its first item created on 2025-03-01
Exact ==
    << Run(1, T(d_mar1), T(d_mar31)),
       Run(99, T(d_old), T(d_next)) >>

\* two full pages and a short one; the second page's first item was created
\* before 2025 and completed in March 2025
Long ==
    << Run(1, T(d_mar31), T(d_mar31)),
       Run(1, Garbage, Garbage),
       Run(2, T(d_mar1), T(d_mar1)),
       Run(96, T(d_old), T(d_next)),
       Run(1, T(d_old), T(d_mar31)),
       Run(99, T(d_old), T(d_next)),
       Run(1, T(d_old), T(d_mar1)),
       Run(49, T(d_old), T(d_old)) >>

\* a full page whose first item has an unparsable timestamp, and one more item
GHead ==
    << Run(1, Garbage, Garbage),
       Run(2, T(d_mar1), T(d_mar1)),
       Run(97, T(d_old), T(d_old)),
       Run(1, T(d_old), T(d_mar1)) >>

\* a full page of items created on 2025-03-01 and two more items, the first
\* of them created on that day as well
Edge ==
    << Run(100, T(d_mar1), T(d_mar31)),
       Run(1, T(d_mar1), T(d_mar1)),
       Run(1, T(d_feb), T(d_mar1)) >>

\* a short page holding a record without creation date
NoCreation ==
    << Run(1, T(d_mar31), T(d_mar31)),
       Run(1, Absent, T(d_mar1)),
       Run(1, T(d_mar1), T(d_mar1)) >>

Repo(name, runs) == [name |-> name, prs |-> runs]

\* the projects of the organization the runs are checked on: name and repositories
Catalogue ==
    << [name |-> "P1", repos |-> << Repo("repoA", Small), Repo("repoB", Empty) >>],
       [name |-> "P2", repos |-> << Repo("repoA", Long), Repo("repoB", GHead) >>],
       [name |-> "P3", repos |-> << >>],
       [name |-> "P4", repos |-> << Repo("repoA", Exact), Repo("repoB", Small) >>],
       [name |-> "P5", repos |-> << Repo("repoA", Edge) >>] >>

\* ... and with records the service's data model does not allow
LooseCatalogue ==
    << [name |-> "P1", repos |-> << Repo("repoA", Small), Repo("repoB", NoCreation) >>],
       [name |-> "P2", repos |-> << Repo("repoA", NoCreation), Repo("repoB", Exact) >>],
       [name |-> "P3", repos |-> << Repo("repoA", Small), Repo("repoB", Empty) >>] >>

\* n consecutive projects of the catalogue, from the k-th on
Consecutive(catalogue, k, n) ==
    [i \in 1..n |-> catalogue[((k + i - 2) % Len(catalogue)) + 1]]

\* the sources of a run: the caller names lo..hi consecutive projects, or the
\* organization holds them
Servers(catalogue, lo, hi) ==
    { Consecutive(catalogue, k, n) : k \in 1..Len(catalogue), n \in lo..hi }

\* the date arguments of the runs: March 2025, the year 2025, and the
\* current month on 2025-03-30
DateArgs ==
    { [year |-> << "2", "0", "2", "5" >>, month |-> << "3" >>, use_current_month |-> FALSE, use_whole_year |-> FALSE, now |-> NoDate],
      [year |-> << "2", "0", "2", "5" >>, month |-> None, use_current_month |-> FALSE, use_whole_year |-> TRUE, now |-> NoDate],
      [year |-> None, month |-> None, use_current_month |-> TRUE, use_whole_year |-> FALSE, now |-> <<2025, 3, 30>>] }

(***************************************************************************)
(* The filter loop's body for one record (ado_pr_contribution.py):         *)
(*   "raise" a KeyError leaves the function (pr['creationDate']),          *)
(*   "skip"  no date, an unparsable date or a date outside the window,     *)
(*   "keep"  the record is annotated and appended to filtered_prs.         *)
(***************************************************************************)
\* a variant of the loop body without the `except ValueError: continue`
ItemVerdict_unparsable_raises(pr, ucd, start_dt, end_dt) ==
    LET date_field == IF ucd THEN pr.creationDate ELSE pr.closedDate
    IN  IF ucd /\ pr.creationDate.kind = "absent" THEN "raise"
        ELSE IF date_field.kind = "absent" THEN "skip"
        ELSE IF ~Parses(date_field) THEN "raise"
        ELSE IF InRange(ParsedDate(date_field), start_dt, end_dt) THEN "keep"
        ELSE "skip"

ItemVerdict(pr, ucd, start_dt, end_dt) ==
    LET date_field == IF ucd THEN pr.creationDate ELSE pr.closedDate
    IN  IF ucd /\ pr.creationDate.kind = "absent" THEN "raise"
        ELSE IF date_field.kind = "absent" THEN "skip"
        ELSE IF ~Parses(date_field) THEN "skip"
        ELSE IF InRange(ParsedDate(date_field), start_dt, end_dt) THEN "keep"
        ELSE "skip"

\* the same loop body in org_pr_count.py, where "keep" adds 1 to filtered_pr_count
OrgItemVerdict(pr, ucd, start_dt, end_dt) ==
    LET date_field == IF ucd THEN pr.creationDate ELSE pr.closedDate
    IN  IF ucd /\ pr.creationDate.kind = "absent" THEN "raise"
        ELSE IF date_field.kind = "absent" THEN "skip"
        ELSE IF ~Parses(date_field) THEN "skip"
        ELSE IF InRange(ParsedDate(date_field), start_dt, end_dt) THEN "keep"
        ELSE "skip"

\* a variant of the annotation with the two names exchanged
Annotate_exchanged(pr, repo_name, project) ==
    [repositoryName |-> project, projectName |-> repo_name] @@ pr

\* pr['repositoryName'] = repo_name; pr['projectName'] = self.project (the
\* assignments set the two keys, whatever the record held under them)
Annotate(pr, repo_name, project) ==
    [repositoryName |-> repo_name, projectName |-> project] @@ pr

\* `for pr in prs:` of get_all_pull_requests over one page: [raised, kept],
\* with kept the filtered_prs in page order, or raised when a record's
\* verdict is "raise" (the exception leaves the loop, filtered_prs is lost)
FilterPrs(page, ucd, start_dt, end_dt, repo_name, project) ==
    LET verdict == [i \in 1..Len(page) |-> ItemVerdict(page[i], ucd, start_dt, end_dt)]
        raised == \E i \in 1..Len(page) : verdict[i] = "raise"
        Keep(pr) == verdict[pr.pullRequestId - page[1].pullRequestId + 1] = "keep"
        sel == SelectSeq(page, Keep)
    IN  [raised |-> raised,
         kept |-> IF raised THEN <<>>
                  ELSE [i \in 1..Len(sel) |-> Annotate(sel[i], repo_name, project)]]

\* `for pr in prs:` of count_project_prs over one page: [raised, count],
\* with count the filtered_pr_count
CountPrs(page, ucd, start_dt, end_dt) ==
    LET verdict == [i \in 1..Len(page) |-> OrgItemVerdict(page[i], ucd, start_dt, end_dt)]
        raised == \E i \in 1..Len(page) : verdict[i] = "raise"
    IN  [raised |-> raised,
         count |-> IF raised THEN 0
                   ELSE Cardinality({i \in 1..Len(page) : verdict[i] = "keep"})]

(***************************************************************************)
(* The early-stop test after a full page: the first record's creation date *)
(* is older than the window's start.  A date that does not parse never     *)
(* stops the loop (`except ValueError: pass`).                             *)
(***************************************************************************)
\* a variant of the early stop without the `use_creation_date` test
EarlyStop_in_any_mode(page, ucd, start_dt) ==
    /\ page # <<>>
    /\ Parses(page[1].creationDate)
    /\ DateLT(ParsedDate(page[1].creationDate), start_dt)

\* a variant of the early stop that also stops on a first record created on
\* the window's first day
EarlyStop_on_start_day(page, ucd, start_dt) ==
    /\ page # <<>>
    /\ ucd
    /\ Parses(page[1].creationDate)
    /\ DateLE(ParsedDate(page[1].creationDate), start_dt)

EarlyStop(page, ucd, start_dt) ==
    /\ page # <<>>
    /\ ucd
    /\ Parses(page[1].creationDate)
    /\ DateLT(ParsedDate(page[1].creationDate), start_dt)

\* a variant of the count's loop without the early stop
OrgEarlyStop_never(page, ucd, start_dt) == FALSE

\* the same test in org_pr_count.py
OrgEarlyStop(page, ucd, start_dt) ==
    /\ page # <<>>
    /\ ucd
    /\ Parses(page[1].creationDate)
    /\ DateLT(ParsedDate(page[1].creationDate), start_dt)

\* a variant of the loop's exits that goes on after an empty page
LoopEnds_after_empty_page(page, early) ==
    (page # <<>> /\ Len(page) < batch_size) \/ early

\* a variant of the loop's exits with the early stop alone
LoopEnds_only_early(page, early) ==
    early

\* a variant of the loop's exits without the short-page break
LoopEnds_on_empty_page(page, early) ==
    page = <<>> \/ early

\* the exits of `while True:`: `if not prs: break`, `if len(prs) < batch_size:
\* break`, and the early stop's break; otherwise skip += batch_size
LoopEnds(page, early) ==
    page = <<>> \/ Len(page) < batch_size \/ early

\* a variant of the continuation that asks for the same offset again
NextSkip_same_offset(sk) == sk

\* `skip += batch_size`: the offset of the next page of the repository
NextSkip(sk) == sk + batch_size

(***************************************************************************)
(* A call to the source or to the credential provider, as the log records  *)
(* it: the request (call, project, repo, skip) and its answer (outcome,    *)
(* number of records, creationDate of the first record).                   *)
(***************************************************************************)
Call(call, project, repo, sk, outcome, n, head) ==
    [call |-> call, project |-> project, repo |-> repo, skip |-> sk,
     outcome |-> outcome, n |-> n, head |-> head]

\* outcomes of session.get in get_pull_requests: a page, an HTTP 404, an
\* HTTP 403, another HTTP error, a connection error (all RequestException),
\* or an answer the function cannot read (a body without 'value': KeyError)
PageOutcomes == {"ok", "404", "403", "http", "network", "raise"}

\* outcomes of a listing call: the list, a RequestException, or an answer
\* the function cannot read
ListOutcomes == {"ok", "error", "raise"}

\* outcomes of _setup_authentication: a token from one of the resources, or none
AuthOutcomes == {"ok", "fail"}

\* a variant of get_repositories that lets a RequestException through
get_repositories_uncaught(outcome, repos) ==
    [raised |-> outcome # "ok",
     value |-> IF outcome = "ok"
               THEN [i \in 1..Len(repos) |-> [id |-> repos[i].name, name |-> repos[i].name]]
               ELSE <<>>]

\* get_repositories: the list of the project's repositories, [] on a
\* RequestException; any other exception leaves the function
get_repositories(outcome, repos) ==
    [raised |-> outcome = "raise",
     value |-> IF outcome = "ok"
               THEN [i \in 1..Len(repos) |-> [id |-> repos[i].name, name |-> repos[i].name]]
               ELSE <<>>]

\* a variant of get_pull_requests that lets "not found" and "access denied" through
get_pull_requests_raising_http(outcome, runs, sk, top) ==
    [raised |-> outcome \in {"raise", "404", "403"},
     value |-> IF outcome = "ok" THEN PageOf(runs, sk, top) ELSE <<>>]

\* get_pull_requests: the page at $skip of at most $top records, [] on every
\* RequestException (404, 403, other HTTP errors, connection errors); any
\* other exception leaves the function
get_pull_requests(outcome, runs, sk, top) ==
    [raised |-> outcome = "raise",
     value |-> IF outcome = "ok" THEN PageOf(runs, sk, top) ELSE <<>>]

(***************************************************************************)
(* Init: the state when main() has parsed its arguments, resolved the date *)
(* range and the organization.                                             *)
(***************************************************************************)
InitWith(catalogue) ==
    /\ mode \in {"single", "multi", "org"}
    /\ use_creation_date \in BOOLEAN
    /\ \E a \in DateArgs :
          LET r == IF mode = "org"
                   THEN org_get_date_range(a.year, a.month, a.use_current_month,
                                           a.use_whole_year, a.now)
                   ELSE get_date_range(a.year, a.month, a.use_current_month,
                                       a.use_whole_year, a.now)
          IN  /\ start_date = fromisoformat_date(r.start_date).value
              /\ end_date = fromisoformat_date(r.end_date).value
    /\ server \in Servers(catalogue,
                          IF mode = "single" THEN 1 ELSE IF mode = "multi" THEN 2 ELSE 0,
                          IF mode = "single" THEN 1 ELSE MaxProjects)
    /\ projects = IF mode = "org" THEN <<>> ELSE [i \in 1..Len(server) |-> server[i].name]
    /\ pi = IF mode = "org" THEN 0 ELSE 1
    /\ repositories = <<>>
    /\ ri = 0
    /\ skip = 0
    /\ repo_pr_count = 0
    /\ repo_has_data = FALSE
    /\ repos_with_prs = 0
    /\ repos_skipped = 0
    /\ all_prs = <<>>
    /\ total_pr_count = 0
    /\ prs = <<>>
    /\ project_counts = <<>>
    /\ total_prs = 0
    /\ pc = "auth"
    /\ exit_code = -1
    /\ output = "none"
    /\ log = <<>>
    /\ faults = 0
    /\ fn = "main"
    /\ arg = <<>>
    /\ ret = <<>>

Init == InitWith(Catalogue)

InitLoose == InitWith(LooseCatalogue)

(***************************************************************************)
(* Pieces of the actions.                                                  *)
(***************************************************************************)
\* the locals of get_all_pull_requests / count_project_prs, outside a call
NoFetchLocals ==
    /\ repositories' = <<>>
    /\ ri' = 0
    /\ skip' = 0
    /\ repo_pr_count' = 0
    /\ repo_has_data' = FALSE
    /\ repos_with_prs' = 0
    /\ repos_skipped' = 0
    /\ all_prs' = <<>>
    /\ total_pr_count' = 0

\* sys.exit(1)
Exit1 ==
    /\ pc' = "exit"
    /\ exit_code' = 1

\* a variant of the loop over the projects that starts over after the last one
NextProject_starting_over ==
    /\ exit_code' = exit_code
    /\ pc' = (IF mode = "multi" THEN "auth" ELSE "repos")
    /\ pi' = IF pi < Len(projects) THEN pi + 1 ELSE 1

\* the next turn of `for i, project in enumerate(projects)`, or the code after it
NextProject ==
    /\ exit_code' = exit_code
    /\ IF pi < Len(projects)
       THEN pi' = pi + 1 /\ pc' = (IF mode = "multi" THEN "auth" ELSE "repos")
       ELSE pi' = pi /\ pc' = "report"

\* a variant of the handlers in which a failed project is recorded with the
\* count reached before the exception
Raised_counting_fetched ==
    /\ NoFetchLocals
    /\ UNCHANGED << prs, total_prs, output >>
    /\ IF mode = "single" THEN Exit1 /\ UNCHANGED << pi, project_counts >>
       ELSE IF mode = "multi" THEN NextProject /\ UNCHANGED project_counts
       ELSE /\ project_counts' = Append(project_counts, <<projects[pi], total_pr_count>>)
            /\ NextProject

\* a variant of the handlers in which the combined result takes the records
\* fetched before the exception
Raised_keeping_fetched ==
    /\ NoFetchLocals
    /\ UNCHANGED << total_prs, output >>
    /\ prs' = IF mode = "multi" THEN prs \o all_prs ELSE prs
    /\ IF mode = "single" THEN Exit1 /\ UNCHANGED << pi, project_counts >>
       ELSE IF mode = "multi" THEN NextProject /\ UNCHANGED project_counts
       ELSE /\ project_counts' = Append(project_counts, <<projects[pi], 0>>)
            /\ NextProject

\* a variant of the handlers in which every mode ends the run
Raised_fatal ==
    /\ NoFetchLocals
    /\ UNCHANGED << prs, total_prs, output, pi, project_counts >>
    /\ Exit1

\* an exception leaves get_all_pull_requests / count_project_prs:
\*   single  main's `except Exception` exits with 1
\*   multi   fetch_prs_from_multiple_projects warns and continues
\*   org     main records the project with 0 and continues
Raised ==
    /\ NoFetchLocals
    /\ UNCHANGED << prs, total_prs, output >>
    /\ IF mode = "single" THEN Exit1 /\ UNCHANGED << pi, project_counts >>
       ELSE IF mode = "multi" THEN NextProject /\ UNCHANGED project_counts
       ELSE /\ project_counts' = Append(project_counts, <<projects[pi], 0>>)
            /\ NextProject

\* a variant of the credential acquisition whose failure, between several
\* projects, is handled like a failed fetch: the run goes on with the next project
Authenticate_failure_per_project ==
    /\ pc = "auth"
    /\ \E outcome \in AuthOutcomes :
          /\ outcome # "ok" => faults < MaxFaults
          /\ faults' = IF outcome = "ok" THEN faults ELSE faults + 1
          /\ log' = << Call("auth", IF mode = "org" THEN "" ELSE projects[pi],
                             "", 0, outcome, 0, Absent) >>
          /\ IF outcome = "ok"
             THEN /\ pc' = (IF mode = "org" THEN "projects" ELSE "repos")
                  /\ exit_code' = exit_code
                  /\ pi' = pi
             ELSE IF mode = "multi"
             THEN NextProject
             ELSE Exit1 /\ pi' = pi
    /\ UNCHANGED << fn, arg, ret, mode, use_creation_date, start_date, end_date, server, projects,
                    repositories, ri, skip, repo_pr_count, repo_has_data, repos_with_prs,
                    repos_skipped, all_prs, total_pr_count, prs, project_counts, total_prs,
                    output >>

(***************************************************************************)
(* AzureDevOpsAPI.__init__ / AzureDevOpsOrgAPI.__init__: the credential    *)
(* acquisition.  Without a token _setup_authentication calls sys.exit(1);  *)
(* SystemExit is no Exception, so no handler of the run catches it.        *)
(***************************************************************************)
Authenticate ==
    /\ pc = "auth"
    /\ \E outcome \in AuthOutcomes :
          /\ outcome # "ok" => faults < MaxFaults
          /\ faults' = IF outcome = "ok" THEN faults ELSE faults + 1
          /\ log' = << Call("auth", IF mode = "org" THEN "" ELSE projects[pi],
                             "", 0, outcome, 0, Absent) >>
          /\ IF outcome = "ok"
             THEN /\ pc' = (IF mode = "org" THEN "projects" ELSE "repos")
                  /\ exit_code' = exit_code
             ELSE Exit1
    /\ UNCHANGED << fn, arg, ret, mode, use_creation_date, start_date, end_date, server, projects, pi,
                    repositories, ri, skip, repo_pr_count, repo_has_data, repos_with_prs,
                    repos_skipped, all_prs, total_pr_count, prs, project_counts, total_prs,
                    output >>

(***************************************************************************)
(* org main: api.get_all_projects() and the `if not projects` exit.        *)
(* get_all_projects answers [] on a RequestException; any other exception  *)
(* reaches main's `except Exception`, which exits with 1 too.              *)
(***************************************************************************)
ListProjects ==
    /\ pc = "projects"
    /\ \E outcome \in ListOutcomes :
          /\ outcome # "ok" => faults < MaxFaults
          /\ faults' = IF outcome = "ok" THEN faults ELSE faults + 1
          /\ LET found == IF outcome = "ok"
                          THEN [i \in 1..Len(server) |-> server[i].name]
                          ELSE <<>>
             IN  /\ log' = << Call("projects", "", "", 0, outcome, Len(found), Absent) >>
                 /\ IF found = <<>>
                    THEN Exit1 /\ UNCHANGED << projects, pi >>
                    ELSE /\ projects' = found
                         /\ pi' = 1
                         /\ pc' = "repos"
                         /\ exit_code' = exit_code
    /\ UNCHANGED << fn, arg, ret, mode, use_creation_date, start_date, end_date, server,
                    repositories, ri, skip, repo_pr_count, repo_has_data, repos_with_prs,
                    repos_skipped, all_prs, total_pr_count, prs, project_counts, total_prs,
                    output >>

(***************************************************************************)
(* The head of get_all_pull_requests / count_project_prs:                  *)
(* self.get_repositories(), which answers [] on a RequestException, and    *)
(* the initialisation of the locals.                                       *)
(***************************************************************************)
ListRepositories ==
    /\ pc = "repos"
    /\ \E outcome \in ListOutcomes :
          /\ outcome # "ok" => faults < MaxFaults
          /\ faults' = IF outcome = "ok" THEN faults ELSE faults + 1
          /\ LET answer == get_repositories(outcome, server[pi].repos)
                 found == answer.value
             IN  /\ log' = << Call("repos", projects[pi], "", 0, outcome, Len(found), Absent) >>
                 /\ IF answer.raised
                    THEN Raised
                    ELSE /\ repositories' = found
                         /\ ri' = IF found = <<>> THEN 0 ELSE 1
                         /\ pc' = IF found = <<>> THEN "return" ELSE "page"
                         /\ skip' = 0
                         /\ repo_pr_count' = 0
                         /\ repo_has_data' = FALSE
                         /\ repos_with_prs' = 0
                         /\ repos_skipped' = 0
                         /\ all_prs' = <<>>
                         /\ total_pr_count' = 0
                         /\ UNCHANGED << pi, prs, project_counts, total_prs, exit_code, output >>
    /\ UNCHANGED << fn, arg, ret, mode, use_creation_date, start_date, end_date, server, projects >>

(***************************************************************************)
(* One turn of `while True:` for the repository repositories[ri]: the page *)
(* request, the filter loop, and the decision to stop or to go on with the *)
(* next offset; when the loop stops, the bookkeeping after it and the move *)
(* to the next repository.                                                 *)
(***************************************************************************)
FetchPage ==
    /\ pc = "page"
    /\ skip <= MaxSkip
    /\ \E outcome \in PageOutcomes :
          /\ outcome # "ok" => faults < MaxFaults
          /\ faults' = IF outcome = "ok" THEN faults ELSE faults + 1
          /\ LET project == projects[pi]
                 repo == repositories[ri]
                 answer == get_pull_requests(outcome, server[pi].repos[ri].prs, skip, batch_size)
                 page == answer.value
                 f == FilterPrs(page, use_creation_date, start_date, end_date, repo.name, project)
                 c == CountPrs(page, use_creation_date, start_date, end_date)
                 raised == answer.raised \/ (IF mode = "org" THEN c.raised ELSE f.raised)
                 matched == IF mode = "org" THEN c.count ELSE Len(f.kept)
                 has_data == repo_has_data \/ page # <<>>
                 early == IF mode = "org"
                          THEN OrgEarlyStop(page, use_creation_date, start_date)
                          ELSE EarlyStop(page, use_creation_date, start_date)
                 stop == LoopEnds(page, early)
                 count == repo_pr_count + matched
             IN  /\ log' = Append(log, Call("page", project, repo.id, skip, outcome, Len(page),
                                            IF page = <<>> THEN Absent ELSE page[1].creationDate))
                 /\ IF raised
                    THEN Raised
                    ELSE /\ all_prs' = IF mode = "org" THEN all_prs ELSE all_prs \o f.kept
                         /\ IF ~stop
                            THEN /\ skip' = NextSkip(skip)
                                 /\ repo_pr_count' = count
                                 /\ repo_has_data' = has_data
                                 /\ UNCHANGED << ri, repos_with_prs, repos_skipped,
                                                 total_pr_count, pc >>
                            ELSE /\ repos_with_prs' = IF count > 0 THEN repos_with_prs + 1
                                                      ELSE repos_with_prs
                                 /\ repos_skipped' = IF count = 0 /\ ~has_data
                                                     THEN repos_skipped + 1
                                                     ELSE repos_skipped
                                 /\ total_pr_count' = IF mode = "org" THEN total_pr_count + count
                                                      ELSE total_pr_count
                                 /\ skip' = 0
                                 /\ repo_pr_count' = 0
                                 /\ repo_has_data' = FALSE
                                 /\ IF ri < Len(repositories)
                                    THEN ri' = ri + 1 /\ pc' = "page"
                                    ELSE ri' = ri /\ pc' = "return"
                         /\ UNCHANGED << repositories, pi, prs, project_counts, total_prs,
                                         exit_code, output >>
    /\ UNCHANGED << fn, arg, ret, mode, use_creation_date, start_date, end_date, server, projects >>

(***************************************************************************)
(* get_all_pull_requests / count_project_prs returns to its caller:        *)
(*   single  main: prs = api.get_all_pull_requests(...)                    *)
(*   multi   fetch_prs_from_multiple_projects: all_prs.extend(project_prs) *)
(*   org     main: project_counts[project_name] = ...; total_prs += ...    *)
(***************************************************************************)
ReturnProject ==
    /\ pc = "return"
    /\ NoFetchLocals
    /\ IF mode = "single"
       THEN /\ prs' = all_prs
            /\ pc' = "report"
            /\ UNCHANGED << pi, project_counts, total_prs, exit_code >>
       ELSE IF mode = "multi"
       THEN /\ prs' = prs \o all_prs
            /\ NextProject
            /\ UNCHANGED << project_counts, total_prs >>
       ELSE /\ project_counts' = Append(project_counts, <<projects[pi], total_pr_count>>)
            /\ total_prs' = total_prs + total_pr_count
            /\ NextProject
            /\ UNCHANGED prs
    /\ UNCHANGED << fn, arg, ret, mode, use_creation_date, start_date, end_date, server, projects,
                    output, log, faults >>

(***************************************************************************)
(* The end of main: the no-data message (ado, `if not prs`) or the report, *)
(* and the normal return (exit code 0).                                    *)
(***************************************************************************)
Report ==
    /\ pc = "report"
    /\ output' = IF mode # "org" /\ prs = <<>> THEN "no_data" ELSE "report"
    /\ pc' = "exit"
    /\ exit_code' = 0
    /\ UNCHANGED << fn, arg, ret, mode, use_creation_date, start_date, end_date, server, projects, pi,
                    repositories, ri, skip, repo_pr_count, repo_has_data, repos_with_prs,
                    repos_skipped, all_prs, total_pr_count, prs, project_counts, total_prs,
                    log, faults >>

Next ==
    \/ Authenticate
    \/ ListProjects
    \/ ListRepositories
    \/ FetchPage
    \/ ReturnProject
    \/ Report

Spec == Init /\ [][Next]_vars

SpecLoose == InitLoose /\ [][Next]_vars

(***************************************************************************)
(* The run as one thread that keeps running: every request is answered and *)
(* the statement after it is executed.  A step of Next can be taken        *)
(* exactly in the states of Running, and every step of Next changes the    *)
(* position << pc, pi, ri, skip >>; the fairness condition WF_vars(Next)   *)
(* is written on the position, so that it is evaluated without computing a *)
(* page.                                                                   *)
(***************************************************************************)
pos == << pc, pi, ri, skip >>

Running == pc # "exit" /\ (pc = "page" => skip <= MaxSkip)

Advance ==
    /\ Running
    /\ pc' \in {"auth", "projects", "repos", "page", "return", "report", "exit"}
    /\ pi' \in {pi, pi + 1}
    /\ ri' \in {0, 1, ri, ri + 1}
    /\ skip' \in {0, skip, NextSkip(skip)}

SpecLive == Init /\ [][Next]_vars /\ WF_pos(Advance)

(***************************************************************************)
(* Functions called on their own.  The run's variables are at rest; pc is  *)
(* "call" before the function has returned and "done" after.               *)
(***************************************************************************)
runvars == << mode, use_creation_date, start_date, end_date, server, projects, pi,
              repositories, ri, skip, repo_pr_count, repo_has_data, repos_with_prs,
              repos_skipped, all_prs, total_pr_count, prs, project_counts, total_prs,
              exit_code, output, log, faults >>

NoRun ==
    /\ mode = "none"
    /\ use_creation_date = FALSE
    /\ start_date = NoDate /\ end_date = NoDate
    /\ server = <<>> /\ projects = <<>> /\ pi = 0
    /\ repositories = <<>> /\ ri = 0 /\ skip = 0
    /\ repo_pr_count = 0 /\ repo_has_data = FALSE
    /\ repos_with_prs = 0 /\ repos_skipped = 0
    /\ all_prs = <<>> /\ total_pr_count = 0 /\ prs = <<>>
    /\ project_counts = <<>> /\ total_prs = 0
    /\ exit_code = -1 /\ output = "none" /\ log = <<>> /\ faults = 0

\* the digits 1, 2, ..., 9, 0, 1, ... of a fraction of n digits
FracOf(n) == [i \in 1..n |-> i % 10]

\* the timestamps normalised on their own: every zone, 0..MaxFracDigits digits
Timestamps ==
    { Iso(d_mar31, FracOf(n), z) :
        n \in 0..MaxFracDigits, z \in {"Z", "+00:00", "+05:30", "-05:00", ""} }

\* the normalisation and the parse of one date_field (the `try:` block of
\* the filter loop), by the interpreter's fromisoformat
ParseTimestampArgs == [ts : Timestamps, py311 : BOOLEAN]

ParseTimestamp ==
    /\ fn = "parse_timestamp" /\ pc = "call"
    /\ LET clean == CleanDate(arg.ts)
       IN  ret' = [clean_date |-> clean,
                   parsed |-> IF arg.py311 THEN FromIsoFormatOk311(clean)
                              ELSE FromIsoFormatOk(clean)]
    /\ pc' = "done"
    /\ UNCHANGED << fn, arg, runvars >>

(***************************************************************************)
(* analyze_pr_data.  A display name is a sequence of words, of which "["   *)
(* (the name's first character) and "Cloud Services" matter to the filter. *)
(* A Counter is the sequence of its <<key, count>> items in insertion      *)
(* order, as Python's dict keeps them.                                     *)
(***************************************************************************)
Unknown == <<"Unknown">>

\* a dictionary without the key 'displayName' (or 'createdBy')
Missing == <<"(no key)">>

\* `not reviewer_name.startswith('[') and 'Cloud Services' not in reviewer_name`
CountedReviewer_brackets_only(reviewer_name) ==
    ~(reviewer_name # <<>> /\ reviewer_name[1] = "[")

CountedReviewer(reviewer_name) ==
    /\ ~(reviewer_name # <<>> /\ reviewer_name[1] = "[")
    /\ ~\E i \in 1..Len(reviewer_name) : reviewer_name[i] = "Cloud Services"

\* a variant of the increment that writes 1: `counter[key] = 1`
Increment_overwrites(counter, key) ==
    IF \E i \in 1..Len(counter) : counter[i][1] = key
    THEN [i \in 1..Len(counter) |->
            IF counter[i][1] = key THEN <<key, 1>> ELSE counter[i]]
    ELSE Append(counter, <<key, 1>>)

\* counter[key] += 1
Increment(counter, key) ==
    IF \E i \in 1..Len(counter) : counter[i][1] = key
    THEN [i \in 1..Len(counter) |->
            IF counter[i][1] = key THEN <<key, counter[i][2] + 1>> ELSE counter[i]]
    ELSE Append(counter, <<key, 1>>)

\* the Counter after `counter[key] += 1` for every key of keys, in order
RECURSIVE CountKeys(_, _)
CountKeys(keys, counter) ==
    IF keys = <<>> THEN counter
    ELSE CountKeys(Tail(keys), Increment(counter, Head(keys)))

\* Counter.most_common(): the items by descending count, items of equal
\* count in insertion order (the sort is stable)
most_common_all(counter) ==
    LET Before(j, i) == counter[j][2] > counter[i][2]
                          \/ (counter[j][2] = counter[i][2] /\ j < i)
        rank(i) == 1 + Cardinality({ j \in 1..Len(counter) : Before(j, i) })
    IN  [r \in 1..Len(counter) |-> counter[CHOOSE i \in 1..Len(counter) : rank(i) = r]]

\* a variant of most_common(n) that cuts the Counter before sorting it
most_common_cut_first(counter, n) ==
    most_common_all(SubSeq(counter, 1, Min(n, Len(counter))))

\* Counter.most_common(n)
most_common(counter, n) ==
    SubSeq(most_common_all(counter), 1, Min(n, Len(counter)))

\* pr.get('createdBy', {}).get('displayName', 'Unknown')
AuthorOf(pr) ==
    IF pr.createdBy = Missing THEN Unknown ELSE pr.createdBy

\* reviewer.get('displayName', 'Unknown') for reviewer in pr.get('reviewers', [])
ReviewerNamesOf(pr) ==
    IF ~pr.has_reviewers THEN <<>>
    ELSE [i \in 1..Len(pr.reviewers) |->
            IF pr.reviewers[i] = Missing THEN Unknown ELSE pr.reviewers[i]]

\* the reviewer names the loop counts, in order
RECURSIVE ReviewerKeys(_)
ReviewerKeys(pulls) ==
    IF pulls = <<>> THEN <<>>
    ELSE SelectSeq(ReviewerNamesOf(Head(pulls)), CountedReviewer) \o ReviewerKeys(Tail(pulls))

\* the four Counters after the loop of analyze_pr_data
Counters(pulls) ==
    [authors |-> CountKeys([i \in 1..Len(pulls) |-> AuthorOf(pulls[i])], <<>>),
     reviewers |-> CountKeys(ReviewerKeys(pulls), <<>>),
     repositories |-> CountKeys([i \in 1..Len(pulls) |-> pulls[i].repositoryName], <<>>),
     projects |-> CountKeys([i \in 1..Len(pulls) |-> pulls[i].projectName], <<>>)]

\* the dictionary analyze_pr_data returns
analyze_pr_data(pulls) ==
    LET c == Counters(pulls)
    IN  [authors |-> most_common(c.authors, 10),
         reviewers |-> most_common(c.reviewers, 10),
         repositories |-> most_common(c.repositories, 10),
         projects |-> most_common_all(c.projects),
         total_prs |-> Len(pulls)]

\* what print_results writes of the dictionary: the project breakdown (only
\* for more than one project) and the three rankings, line by line
print_results(stats, project_names) ==
    [breakdown |-> IF Len(project_names) > 1 THEN stats.projects ELSE <<>>,
     authors |-> stats.authors,
     reviewers |-> stats.reviewers,
     repositories |-> stats.repositories]

\* display names of the lists analysed on their own
Ann == <<"Ann">>
Bob == <<"Bob">>
Team == <<"[", "Team", "]", "Reviewers">>
Bot == <<"Azure", "Cloud Services", "Bot">>
Odd == <<"Ann", "[", "x", "]">>

People ==
    << <<"d01">>, <<"d02">>, <<"d03">>, <<"d04">>, <<"d05">>, <<"d06">>, <<"d07">>,
       <<"d08">>, <<"d09">>, <<"d10">>, <<"d11">>, <<"d12">>, <<"d13">>, <<"d14">> >>

Pr(createdBy, reviewers, repositoryName, projectName) ==
    [createdBy |-> createdBy, has_reviewers |-> TRUE, reviewers |-> reviewers,
     repositoryName |-> repositoryName, projectName |-> projectName]

\* a record without the keys 'createdBy' and 'reviewers'
BarePr(repositoryName, projectName) ==
    [createdBy |-> Missing, has_reviewers |-> FALSE, reviewers |-> <<>>,
     repositoryName |-> repositoryName, projectName |-> projectName]

\* records as get_all_pull_requests hands them on: with and without author
\* and reviewers, reviewers that are service accounts, two reviewers of the
\* same display name
SamplePrs ==
    { Pr(Ann, <<Bob, Team>>, "repoA", "P1"),
      Pr(Bob, <<Ann, Bot, Odd>>, "repoB", "P1"),
      BarePr("repoA", "P2"),
      Pr(Ann, <<Missing, Bot>>, "repoA", "P2"),
      Pr(Bob, <<Bob, Bob>>, "repoB", "P2"),
      Pr(Team, <<>>, "repoC", "P3") }

\* all the lists of at most n sample records
RECURSIVE ListsUpTo(_)
ListsUpTo(n) ==
    IF n = 0 THEN { <<>> }
    ELSE ListsUpTo(n - 1) \cup
         { Append(l, x) : l \in { m \in ListsUpTo(n - 1) : Len(m) = n - 1 }, x \in SamplePrs }

\* a list of k + 1 records: one by each of k authors, each in a project of
\* its own, reviewed by the authors in reverse order, then a second one by
\* the r-th author, reviewed by the t-th
LongList(k, r, t) ==
    [i \in 1..(k + 1) |->
        IF i <= k THEN Pr(People[i], << People[k + 1 - i] >>, "repoA", People[i][1])
        ELSE Pr(People[r], << People[t], Team >>, "repoB", "P2")]

AnalyzeArgs ==
    [prs : ListsUpTo(MaxPrs) \cup
           { LongList(k, r, t) : k \in 9..MaxAuthors, r \in 1..MaxAuthors, t \in {1, 9} },
     projects : { <<"P1">>, <<"P1", "P2", "P3">> }]

\* main: stats = analyze_pr_data(prs); print_results(stats, projects, ...)
AnalyzePrData ==
    /\ fn = "analyze_pr_data" /\ pc = "call"
    /\ LET stats == analyze_pr_data(arg.prs)
       IN  ret' = [counters |-> Counters(arg.prs),
                   stats |-> stats,
                   printed |-> print_results(stats, arg.projects)]
    /\ pc' = "done"
    /\ UNCHANGED << fn, arg, runvars >>

(***************************************************************************)
(* The report of org_pr_count.main, from project_counts (the items of the  *)
(* dictionary in insertion order) and the verbosity.                       *)
(***************************************************************************)
\* sorted(project_counts.items(), key=lambda x: x[1], reverse=True): by
\* descending count, items of equal count in insertion order
sorted_projects(items) ==
    LET Before(j, i) == items[j][2] > items[i][2]
                          \/ (items[j][2] = items[i][2] /\ j < i)
        rank(i) == 1 + Cardinality({ j \in 1..Len(items) : Before(j, i) })
    IN  [r \in 1..Len(items) |-> items[CHOOSE i \in 1..Len(items) : rank(i) = r]]

\* a variant of the breakdown that prints the zero counts at every verbosity
org_breakdown_with_zeros(items, VERBOSITY) ==
    sorted_projects(items)

\* the lines of the per-project breakdown: `if count > 0 or VERBOSITY >= 2`
org_breakdown(items, VERBOSITY) ==
    LET Printed(item) == item[2] > 0 \/ VERBOSITY >= 2
    IN  SelectSeq(sorted_projects(items), Printed)

\* the dictionaries reported on their own: the first n projects, counted
\* 0, 1 or 2 in turn from the shift-th on
CountsOf(n, shift) == [i \in 1..n |-> << People[i][1], (i + shift) % 3 >>]

OrgReportArgs ==
    [project_counts : { CountsOf(n, shift) : n \in 1..MaxAuthors, shift \in 0..2 },
     VERBOSITY : 0..2]

\* org main: the report after the loop over the projects
PrintOrgReport ==
    /\ fn = "org_report" /\ pc = "call"
    /\ ret' = [breakdown |-> org_breakdown(arg.project_counts, arg.VERBOSITY),
               projects_with_prs |->
                   Cardinality({ i \in 1..Len(arg.project_counts) : arg.project_counts[i][2] > 0 })]
    /\ pc' = "done"
    /\ UNCHANGED << fn, arg, runvars >>

(***************************************************************************)
(* The head of main: parse_arguments and get_date_range, before the        *)
(* organization is looked up and the first request is made.  pc is "done"  *)
(* when the window is resolved and the run goes on, "exit" after           *)
(* sys.exit(1).                                                            *)
(***************************************************************************)
\* the arguments the heads are called with: years and months inside and
\* outside the ranges, written with and without a leading zero, and names
YearWords == { << "2", "0", "0", "0" >>, << "2", "0", "2", "5" >>, << "2", "0", "3", "0" >>, << "0", "2", "0", "2", "5" >>, << "1", "9", "9", "9" >>, << "2", "0", "3", "1" >> }

MonthWords == { << "1" >>, << "3" >>, << "0", "3" >>, << "9" >>, << "1", "1" >>, << "1", "2" >>, << "0" >>, << "1", "3" >> }

NameWords == { << "P", "1" >>, << "P", "1", ",", " ", "P", "2" >>, << "a", "b", "c" >> }

Words == YearWords \cup MonthWords \cup NameWords

Argvs ==
    { <<>> }
      \cup { << w >> : w \in Words }
      \cup { << v, w >> : v \in Words, w \in Words }
      \cup { << n, y, m >> : n \in NameWords, y \in YearWords \cup NameWords, m \in MonthWords }
      \cup { << << "-", "v", "v" >>, y >> : y \in YearWords }
      \cup { << y, << "-", "v" >>, m >> : y \in YearWords, m \in MonthWords }
      \cup { << n, y, m, m >> : n \in NameWords, y \in YearWords, m \in MonthWords }

\* datetime.now(): a day inside a month, the last day of a year, a leap day
Nows == { <<2025, 3, 30>>, <<2024, 12, 31>>, <<2024, 2, 29>> }

MainArgs == [argv : Argvs, now : Nows]

headvars == << mode, use_creation_date, start_date, end_date, server, projects, pi,
               repositories, ri, skip, repo_pr_count, repo_has_data, repos_with_prs,
               repos_skipped, all_prs, total_pr_count, prs, project_counts, total_prs,
               output, log, faults >>

\* ado_pr_contribution.main, lines 1 and 2
AdoResolve ==
    /\ fn = "ado_main" /\ pc = "call"
    /\ LET p == parse_arguments(arg.argv)
           r == IF p.exit THEN NoWindow
                ELSE get_date_range(p.year, p.month, p.use_current_month,
                                    p.use_whole_year, arg.now)
       IN  /\ ret' = [parsed |-> p, start_date |-> r.start_date, end_date |-> r.end_date]
           /\ IF r.exit THEN Exit1 ELSE pc' = "done" /\ exit_code' = exit_code
    /\ UNCHANGED << fn, arg, headvars >>

\* org_pr_count.main, lines 1 and 2
OrgResolve ==
    /\ fn = "org_main" /\ pc = "call"
    /\ LET p == org_parse_arguments(arg.argv)
           r == IF p.exit THEN NoWindow
                ELSE org_get_date_range(p.year, p.month, p.use_current_month,
                                        p.use_whole_year, arg.now)
       IN  /\ ret' = [parsed |-> p, start_date |-> r.start_date, end_date |-> r.end_date]
           /\ IF r.exit THEN Exit1 ELSE pc' = "done" /\ exit_code' = exit_code
    /\ UNCHANGED << fn, arg, headvars >>

InitCalls ==
    /\ NoRun
    /\ pc = "call"
    /\ ret = <<>>
    /\ \/ fn = "parse_timestamp" /\ arg \in ParseTimestampArgs
       \/ fn = "analyze_pr_data" /\ arg \in AnalyzeArgs
       \/ fn = "org_report" /\ arg \in OrgReportArgs
       \/ fn = "ado_main" /\ arg \in MainArgs
       \/ fn = "org_main" /\ arg \in MainArgs

NextCalls ==
    \/ ParseTimestamp
    \/ AnalyzePrData
    \/ PrintOrgReport
    \/ AdoResolve
    \/ OrgResolve

SpecCalls == InitCalls /\ [][NextCalls]_vars

(***************************************************************************)
(* Vocabulary of the properties.                                           *)
(***************************************************************************)
Range(f) == { f[i] : i \in DOMAIN f }

\* the call a step has just made (every step but ReturnProject and Report makes one)
Made == log'[Len(log')]

\* the step is a turn of the page loop
PageStep == pc = "page"

\* the page the source holds for the request of the unit in progress
SourcePage == PageOf(server[pi].repos[ri].prs, skip, batch_size)

\* the records a page step has appended to all_prs
Appended == SubSeq(all_prs', Len(all_prs) + 1, Len(all_prs'))

\* the number of records a page step has counted (org_pr_count.py)
Counted == (total_pr_count' + repo_pr_count') - (total_pr_count + repo_pr_count)

\* the timestamp the run is configured to filter by
Configured(pr) == IF use_creation_date THEN pr.creationDate ELSE pr.closedDate

\* a calendar date as one number, in chronological order
DayKey(d) == d[1] * 10000 + d[2] * 100 + d[3]

\* the record's configured date lies in [start_date, end_date)
InWindow(pr) ==
    /\ Configured(pr).kind = "iso"
    /\ DayKey(start_date) <= DayKey(Configured(pr).date)
    /\ DayKey(Configured(pr).date) < DayKey(end_date)

\* a step that ends with an exception leaving the fetch of the project in progress
StepRaised == Made.outcome = "raise" \/ (pc = "page" /\ Made.outcome = "ok" /\ pc' # "page" /\ pc' # "return")

(***************************************************************************)
(* C1.  Window membership is half-open.  Whenever a page is served and     *)
(* filtered, a record of the page is kept (appended to all_prs with its    *)
(* annotation, or counted by count_project_prs) if and only if its         *)
(* configured date d satisfies start_date <= d < end_date: a record dated  *)
(* start_date is kept, a record dated end_date is not.                     *)
(***************************************************************************)
HalfOpenStep ==
    (PageStep /\ Made.outcome = "ok" /\ ~StepRaised) =>
        /\ mode # "org" =>
              \A i \in 1..Len(SourcePage) :
                  Annotate(SourcePage[i], Made.repo, Made.project) \in Range(Appended)
                      <=> InWindow(SourcePage[i])
        /\ mode = "org" =>
              Counted = Cardinality({ i \in 1..Len(SourcePage) : InWindow(SourcePage[i]) })

HalfOpenMembership == [][HalfOpenStep]_vars

\* repository A of P1 filtered by completion date for March 2025: the records
\* completed on 2025-03-01 and 2025-03-31 are in the result, the one completed
\* on 2025-04-01 is not
HalfOpenWitness ==
    /\ mode = "single" /\ ~use_creation_date
    /\ start_date = <<2025, 3, 1>> /\ end_date = <<2025, 4, 1>>
    /\ pc = "report"
    /\ \E x \in Range(prs) : x.closedDate = T(d_mar1) /\ x.repositoryName = "repoA"
    /\ \E x \in Range(prs) : x.closedDate = T(d_mar31)
    /\ ~ \E x \in Range(prs) : x.closedDate = T(d_apr1)

\* the fetch loop of a repository has ended without an exception; the log's
\* last entry is that repository's last page request
LoopEnded ==
    /\ pc \in {"page", "return"}
    /\ skip = 0
    /\ log # <<>>
    /\ log[Len(log)].call = "page"

\* the page requests the log holds for a repository of the project in progress
RequestsFor(repo_id) ==
    LET ForRepo(c) == c.call = "page" /\ c.repo = repo_id
    IN  SelectSeq(log, ForRepo)

\* the page requests of the repository whose loop has ended
RepoLog == RequestsFor(log[Len(log)].repo)

\* the repository whose loop has ended, as the source holds it
LoggedRepo == CHOOSE r \in Range(server[pi].repos) : r.name = log[Len(log)].repo

\* every page request of that repository was answered with a page
AllPagesServed == \A k \in 1..Len(RepoLog) : RepoLog[k].outcome = "ok"

\* the loop ended on a short or empty page, not on the early stop
EndedOnShortPage == log[Len(log)].n < batch_size

\* the number of page requests a repository of N records is to cause
ExpectedRequests(N) ==
    IF N % batch_size = 0 THEN N \div batch_size + 1
    ELSE (N + batch_size - 1) \div batch_size

(***************************************************************************)
(* C2.  When every page request of a repository succeeded and the loop did *)
(* not end on the early stop, a repository of N completed pull requests    *)
(* has caused N / 100 + 1 requests if N is a multiple of 100 (one request  *)
(* for N = 0) and ceil(N / 100) requests otherwise, at the offsets 0, 100, *)
(* 200, ... in this order.                                                 *)
(***************************************************************************)
PageRequestCount ==
    (LoopEnded /\ AllPagesServed /\ EndedOnShortPage) =>
        /\ Len(RepoLog) = ExpectedRequests(CountOf(LoggedRepo.prs))
        /\ \A k \in 1..Len(RepoLog) : RepoLog[k].skip = (k - 1) * batch_size

\* a repository of exactly 100 records, fetched with two requests: the full
\* page at offset 0 and the empty page at offset 100
PageRequestCountWitness ==
    /\ LoopEnded /\ AllPagesServed /\ EndedOnShortPage
    /\ CountOf(LoggedRepo.prs) = batch_size
    /\ Len(RepoLog) = 2
    /\ RepoLog[2].skip = batch_size /\ RepoLog[2].n = 0

\* the last call the run has made
LastCall == log[Len(log)]

(***************************************************************************)
(* C3.  In every mode a failure while processing one repository or one     *)
(* project never ends the run with exit code 1: a run that ends with exit  *)
(* code 1 has failed in the credential acquisition or in the initial       *)
(* listing (the projects of the organization, the repositories of the      *)
(* single project), never in a page request or in the filtering of a page. *)
(***************************************************************************)
NoUnitFailureIsFatal ==
    exit_code = 1 =>
        \/ LastCall.call \in {"auth", "projects"}
        \/ mode = "single" /\ LastCall.call = "repos"

\* the traversal of a sequence of numbers into their sum
RECURSIVE SumSeq(_)
SumSeq(q) == IF q = <<>> THEN 0 ELSE q[1] + SumSeq(Tail(q))

\* the number of records of a repository inside the window
InWindowCount(runs) ==
    Cardinality({ i \in 1..CountOf(runs) : InWindow(ItemAt(runs, i, i)) })

\* the log holds the requests of repository repo_id up to its short or empty
\* page, all of them answered
FullyServed(repo_id) ==
    LET r == RequestsFor(repo_id)
    IN  /\ r # <<>>
        /\ \A k \in 1..Len(r) : r[k].outcome = "ok"
        /\ r[Len(r)].n < batch_size

\* every repository of the project in progress is fully served
ProjectFullyServed ==
    \A i \in 1..Len(server[pi].repos) : FullyServed(server[pi].repos[i].name)

\* the step ends the processing of the project in progress with an exception
ProjectRaises == pc \in {"repos", "page"} /\ pc' \notin {"page", "return"}

(***************************************************************************)
(* C4.  Organization-wide run: when the processing of a project raises an  *)
(* exception, the project is recorded with the count 0, the counts         *)
(* recorded for the other projects stay as they are, the run goes on with  *)
(* the next project in order (or with the report after the last one) and   *)
(* does not exit; a project that returns is recorded with its count, which *)
(* for a fully served project is the number of its records in the window.  *)
(***************************************************************************)
OrgProjectStep ==
    mode = "org" =>
        /\ ProjectRaises =>
              /\ project_counts' = Append(project_counts, <<projects[pi], 0>>)
              /\ total_prs' = total_prs
              /\ exit_code' = exit_code
              /\ IF pi < Len(projects)
                 THEN pi' = pi + 1 /\ pc' = "repos"
                 ELSE pc' = "report"
        /\ pc = "return" =>
              /\ project_counts' = Append(project_counts, <<projects[pi], total_pr_count>>)
              /\ total_prs' = total_prs + total_pr_count
              /\ ProjectFullyServed =>
                    total_pr_count = SumSeq([i \in 1..Len(server[pi].repos) |->
                                               InWindowCount(server[pi].repos[i].prs)])
              /\ IF pi < Len(projects)
                 THEN pi' = pi + 1 /\ pc' = "repos"
                 ELSE pc' = "report"
        /\ pc = "report" =>
              /\ exit_code' = 0 /\ output' = "report"
              /\ Len(project_counts) = Len(projects)
              /\ \A i \in 1..Len(projects) : project_counts[i][1] = projects[i]

OrgFailedProjectCountsZero == [][OrgProjectStep]_vars

\* an organization of two projects: the first is counted (records in the
\* window), the second raises and is recorded with 0, and the run reports
OrgFailedProjectWitness ==
    /\ mode = "org" /\ pc = "exit" /\ exit_code = 0 /\ output = "report"
    /\ Len(project_counts) = 2
    /\ project_counts[1][2] > 0
    /\ project_counts[2][2] = 0
    /\ LastCall.outcome = "raise"
    /\ total_prs = project_counts[1][2]

\* the first page request of repository repo_id was answered "not found" or
\* "access denied"
RefusedAtFirstPage(repo_id) ==
    \E k \in 1..Len(log) :
        /\ log[k].call = "page" /\ log[k].repo = repo_id
        /\ log[k].skip = 0 /\ log[k].outcome \in {"404", "403"}

\* the names of the repositories of the project in progress
RepoNames == [i \in 1..Len(server[pi].repos) |-> server[pi].repos[i].name]

(***************************************************************************)
(* C5.  A repository whose first page request is answered with 404 or 403  *)
(* contributes no record and no count, is booked as skipped (no data)      *)
(* rather than as a failure, and the run goes on with the next repository  *)
(* without exiting.  When the project returns, every other repository has  *)
(* been requested, the refused repository has no record in the result, and *)
(* every record in the window of a fully served repository is in the       *)
(* result (in the count, organization-wide).                               *)
(***************************************************************************)
RefusedRepositoryStep ==
    /\ (PageStep /\ skip = 0 /\ Made.outcome \in {"404", "403"}) =>
          /\ all_prs' = all_prs
          /\ total_pr_count' = total_pr_count
          /\ repos_skipped' = repos_skipped + 1
          /\ repos_with_prs' = repos_with_prs
          /\ exit_code' = exit_code /\ prs' = prs /\ project_counts' = project_counts
          /\ IF ri < Len(repositories)
             THEN pc' = "page" /\ ri' = ri + 1 /\ skip' = 0
             ELSE pc' = "return"
    /\ (pc = "return" /\ \E i \in 1..Len(RepoNames) : RefusedAtFirstPage(RepoNames[i])) =>
          /\ \A i \in 1..Len(RepoNames) : RequestsFor(RepoNames[i]) # <<>>
          /\ \A i \in 1..Len(RepoNames) :
                RefusedAtFirstPage(RepoNames[i]) =>
                    /\ Len(RequestsFor(RepoNames[i])) = 1
                    /\ \A x \in Range(all_prs) : x.repositoryName # RepoNames[i]
          /\ mode # "org" =>
                \A i \in 1..Len(RepoNames) :
                    FullyServed(RepoNames[i]) =>
                        \A j \in 1..CountOf(server[pi].repos[i].prs) :
                            LET pr == ItemAt(server[pi].repos[i].prs, j, j)
                            IN  InWindow(pr) =>
                                    Annotate(pr, RepoNames[i], projects[pi]) \in Range(all_prs)
          /\ (mode = "org" /\ \A i \in 1..Len(RepoNames) :
                                  RefusedAtFirstPage(RepoNames[i]) \/ FullyServed(RepoNames[i])) =>
                total_pr_count =
                    SumSeq([i \in 1..Len(RepoNames) |->
                              IF FullyServed(RepoNames[i])
                              THEN InWindowCount(server[pi].repos[i].prs) ELSE 0])

RefusedRepositoryContributesNothing == [][RefusedRepositoryStep]_vars

\* a single-project run that ends with the report: repository A was refused
\* at its first page, repository B was fully served and its records are in
\* the result
RefusedRepositoryWitness ==
    /\ mode = "single" /\ pc = "exit" /\ exit_code = 0 /\ output = "report"
    /\ RefusedAtFirstPage("repoA")
    /\ FullyServed("repoB")
    /\ prs # <<>>
    /\ \A x \in Range(prs) : x.repositoryName = "repoB"

\* the single project's repository listing is the run's last call
SingleRunEndedAfterListing ==
    /\ mode = "single" /\ pc = "exit"
    /\ LastCall.call = "repos"

NextOffsetRequested(k) ==
    IF k < Len(log)
    THEN /\ log[k + 1].call = "page"
         /\ log[k + 1].repo = log[k].repo
         /\ log[k + 1].skip = log[k].skip + batch_size
    ELSE /\ pc = "page"
         /\ repositories[ri].id = log[k].repo
         /\ skip = log[k].skip + batch_size

\* the k-th call of the log is a page request answered with a full page
FullPageAt(k) ==
    /\ log[k].call = "page"
    /\ log[k].outcome = "ok"
    /\ log[k].n = batch_size

(***************************************************************************)
(* C7.  The early stop never fires when the run filters by completion      *)
(* date: after every page of exactly 100 records the next offset of the    *)
(* same repository is requested, whatever the creation dates on the page.  *)
(***************************************************************************)
NoEarlyStopByCompletionDate ==
    ~use_creation_date =>
        \A k \in 1..Len(log) : FullPageAt(k) => NextOffsetRequested(k)

\* a run by completion date in which a full page whose first record was
\* created before the window is followed by the request of the next offset
NoEarlyStopWitness ==
    /\ ~use_creation_date
    /\ \E k \in 1..Len(log) :
          /\ FullPageAt(k)
          /\ log[k].head.kind = "iso"
          /\ DayKey(log[k].head.date) < DayKey(start_date)
          /\ k < Len(log)
          /\ log[k + 1].skip = log[k].skip + batch_size
          /\ log[k + 1].n > 0

\* no request follows the k-th call of the log for the same repository
NoFurtherRequest(k) ==
    IF k < Len(log)
    THEN ~(log[k + 1].call = "page" /\ log[k + 1].repo = log[k].repo)
    ELSE ~(pc = "page" /\ skip > 0)

\* the k-th call of the log is a page whose first record's creation date
\* parses and lies before the window's start
HeadBeforeWindow(k) ==
    /\ log[k].call = "page" /\ log[k].outcome = "ok" /\ log[k].n > 0
    /\ Parses(log[k].head)
    /\ DayKey(log[k].head.date) < DayKey(start_date)

\* ... parses and lies on or after the window's start
HeadInOrAfterWindow(k) ==
    /\ log[k].call = "page" /\ log[k].outcome = "ok" /\ log[k].n > 0
    /\ Parses(log[k].head)
    /\ DayKey(log[k].head.date) >= DayKey(start_date)

(***************************************************************************)
(* C8.  When the run filters by creation date, a fetched page whose first  *)
(* record was created strictly before the window's start is the last page  *)
(* requested for its repository; a first record created on or after the    *)
(* window's start never stops the loop: a full page with such a first      *)
(* record is followed by the request of the next offset.                   *)
(***************************************************************************)
EarlyStopByCreationDate ==
    use_creation_date =>
        \A k \in 1..Len(log) :
            /\ HeadBeforeWindow(k) => NoFurtherRequest(k)
            /\ (FullPageAt(k) /\ HeadInOrAfterWindow(k)) => NextOffsetRequested(k)

\* a run by creation date that stopped on the second full page of a
\* repository of 250 records (first record created before the window), the
\* first page, whose first record is in the window, having been followed up
EarlyStopWitness ==
    /\ use_creation_date
    /\ LoopEnded
    /\ FullPageAt(Len(log)) /\ HeadBeforeWindow(Len(log))
    /\ CountOf(LoggedRepo.prs) > LastCall.skip + batch_size
    /\ Len(RepoLog) = 2
    /\ HeadInOrAfterWindow(Len(log) - 1)

\* the page served by the step holds a record without the configured timestamp
PageLacksConfiguredDate ==
    \E i \in 1..Len(SourcePage) : Configured(SourcePage[i]).kind = "absent"

(***************************************************************************)
(* C9.  A record that lacks the configured timestamp (creationDate when    *)
(* filtering by creation date, closedDate when filtering by completion     *)
(* date) is left out silently: the page step that meets it raises nothing  *)
(* (the loop goes on or ends normally, the exit code is untouched) and the *)
(* other records of the page are kept exactly when they are in the window. *)
(***************************************************************************)
MissingTimestampStep ==
    (PageStep /\ Made.outcome = "ok" /\ PageLacksConfiguredDate) =>
        /\ pc' \in {"page", "return"}
        /\ exit_code' = exit_code
        /\ mode # "org" =>
              \A i \in 1..Len(SourcePage) :
                  Annotate(SourcePage[i], Made.repo, Made.project) \in Range(Appended)
                      <=> InWindow(SourcePage[i])
        /\ mode = "org" =>
              Counted = Cardinality({ i \in 1..Len(SourcePage) : InWindow(SourcePage[i]) })

MissingTimestampExcludedSilently == [][MissingTimestampStep]_vars

\* the page served by the step holds a record whose configured timestamp
\* does not parse
PageHasUnparsableDate ==
    \E i \in 1..Len(SourcePage) :
        /\ Configured(SourcePage[i]).kind # "absent"
        /\ ~Parses(Configured(SourcePage[i]))

\* the page served by the step, without the records whose configured
\* timestamp does not parse
ParsableOfPage ==
    LET Ok(pr) == Configured(pr).kind = "absent" \/ Parses(Configured(pr))
    IN  SelectSeq(SourcePage, Ok)

\* the early stop the page served by the step calls for: a full page by
\* creation date whose first record's creation date parses and lies before
\* the window
StopCalledFor ==
    /\ use_creation_date
    /\ Parses(SourcePage[1].creationDate)
    /\ DayKey(SourcePage[1].creationDate.date) < DayKey(start_date)

(***************************************************************************)
(* C10.  A record whose timestamp does not parse after the normalisation   *)
(* is skipped alone: the page step raises nothing and leaves the exit code *)
(* untouched, the record is not kept, the records kept (counted) from the  *)
(* page are exactly the records in the window of the page without it, in   *)
(* page order, and the later pages are still fetched: a full page is       *)
(* followed by the request of the next offset unless the early stop is     *)
(* called for by a first record that parses.                               *)
(***************************************************************************)
UnparsableTimestampStep ==
    (PageStep /\ Made.outcome = "ok" /\ PageHasUnparsableDate /\ ~PageLacksConfiguredDate) =>
        /\ pc' \in {"page", "return"}
        /\ exit_code' = exit_code
        /\ mode # "org" =>
              /\ \A x \in Range(Appended) : Parses(Configured(x))
              /\ Appended = LET kept == SelectSeq(ParsableOfPage, InWindow)
                            IN  [i \in 1..Len(kept) |-> Annotate(kept[i], Made.repo, Made.project)]
        /\ mode = "org" =>
              Counted = Len(SelectSeq(ParsableOfPage, InWindow))
        /\ (Len(SourcePage) = batch_size /\ ~StopCalledFor) =>
              pc' = "page" /\ ri' = ri /\ skip' = skip + batch_size

UnparsableTimestampSkippedAlone == [][UnparsableTimestampStep]_vars

\* a run by creation date over the repository of 101 records whose first
\* record's creation date does not parse: the two records of the first page
\* created in the window are in the result and the second page was requested
UnparsableTimestampWitness ==
    /\ use_creation_date /\ mode # "org"
    /\ pc = "return"
    /\ \E k \in 1..Len(log) :
          /\ FullPageAt(k)
          /\ log[k].head.kind = "garbage"
          /\ k < Len(log)
          /\ log[k + 1].repo = log[k].repo /\ log[k + 1].skip = batch_size
          /\ Cardinality({ i \in 1..Len(all_prs) : all_prs[i].repositoryName = log[k].repo }) = 2

\* the call of fn has returned
Returned(f) == fn = f /\ pc = "done"

\* the microseconds a fraction stands for: its first six digits, zeros after
Micros(frac) == [i \in 1..6 |-> IF i <= Len(frac) THEN frac[i] ELSE 0]

\* the instant a timestamp denotes, to the microsecond
InstantOf(ts) == << ts.date, Micros(ts.frac), IF ts.zone = "Z" THEN "+00:00" ELSE ts.zone >>

(***************************************************************************)
(* C11.  The normalisation writes a trailing "Z" as "+00:00", cuts every   *)
(* fraction of more than 6 digits to exactly its first 6 digits, leaves a  *)
(* fraction of 6 digits or fewer as it is (no padding), and the normalised *)
(* timestamp denotes the instant of the input cut to microseconds.         *)
(***************************************************************************)
NormalizationCutsToMicroseconds ==
    Returned("parse_timestamp") =>
        /\ arg.ts.zone = "Z" => ret.clean_date.zone = "+00:00"
        /\ arg.ts.zone # "Z" => ret.clean_date.zone = arg.ts.zone
        /\ Len(arg.ts.frac) > 6 => ret.clean_date.frac = SubSeq(arg.ts.frac, 1, 6)
        /\ Len(arg.ts.frac) <= 6 => ret.clean_date.frac = arg.ts.frac
        /\ InstantOf(ret.clean_date) = InstantOf(arg.ts)

\* the display name the analysis reads from a dictionary
Shown(name) == IF name = Missing THEN <<"Unknown">> ELSE name

\* the name is a service account's: it begins with '[' or holds the marker
ServiceAccount(name) ==
    \/ name # <<>> /\ name[1] = "["
    \/ \E i \in 1..Len(name) : name[i] = "Cloud Services"

\* the reviews of the analysed list: <<i, j>> for the j-th reviewer of the
\* i-th pull request
Reviews ==
    UNION { { <<i, j>> : j \in IF arg.prs[i].has_reviewers
                                THEN 1..Len(arg.prs[i].reviewers) ELSE {} } :
            i \in 1..Len(arg.prs) }

\* the reviews shown under a name
ReviewsBy(name) ==
    { r \in Reviews : Shown(arg.prs[r[1]].reviewers[r[2]]) = name }

\* the count a Counter holds for a key, 0 when it holds none
CountFor(counter, key) ==
    IF \E i \in 1..Len(counter) : counter[i][1] = key
    THEN counter[CHOOSE i \in 1..Len(counter) : counter[i][1] = key][2]
    ELSE 0

\* the keys of a Counter are distinct
DistinctKeys(counter) ==
    \A i, j \in 1..Len(counter) : counter[i][1] = counter[j][1] => i = j

(***************************************************************************)
(* C12.  Whatever the list of pull requests, no reviewer whose display     *)
(* name begins with '[' or holds 'Cloud Services' is in the reviewer       *)
(* ranking or in the reviewer Counter, and the count of every other        *)
(* reviewer is the number of reviews under that name: the excluded         *)
(* reviewers add nothing to it.                                            *)
(***************************************************************************)
ServiceAccountsNotRanked ==
    Returned("analyze_pr_data") =>
        /\ \A i \in 1..Len(ret.stats.reviewers) : ~ServiceAccount(ret.stats.reviewers[i][1])
        /\ \A i \in 1..Len(ret.counters.reviewers) :
              /\ ~ServiceAccount(ret.counters.reviewers[i][1])
              /\ ret.counters.reviewers[i][2] =
                     Cardinality(ReviewsBy(ret.counters.reviewers[i][1]))
        /\ \A i \in 1..Len(ret.stats.reviewers) :
              ret.stats.reviewers[i][2] = Cardinality(ReviewsBy(ret.stats.reviewers[i][1]))

\* a list with reviews by '[Team] Reviewers' and by 'Azure Cloud Services
\* Bot' next to reviews by people: only the people are ranked
ServiceAccountsWitness ==
    /\ Returned("analyze_pr_data")
    /\ \E r \in Reviews : arg.prs[r[1]].reviewers[r[2]] = Team
    /\ \E r \in Reviews : arg.prs[r[1]].reviewers[r[2]] = Bot
    /\ \E i \in 1..Len(ret.stats.reviewers) : ret.stats.reviewers[i][1] = Bob
    /\ \E i \in 1..Len(ret.stats.reviewers) : ret.stats.reviewers[i][1] = Odd
    /\ Len(ret.stats.reviewers) < Cardinality(Reviews)

\* the sum of the counts of a Counter
RECURSIVE TotalOf(_)
TotalOf(counter) ==
    IF counter = <<>> THEN 0 ELSE counter[1][2] + TotalOf(Tail(counter))

\* the Counter holds, for every key, the number of pull requests of the
\* analysed list that Key maps to it, and no other key
CountsEachOnce(counter, Key(_)) ==
    /\ DistinctKeys(counter)
    /\ \A i \in 1..Len(arg.prs) : CountFor(counter, Key(arg.prs[i])) > 0
    /\ \A k \in 1..Len(counter) :
          counter[k][2] = Cardinality({ i \in 1..Len(arg.prs) : Key(arg.prs[i]) = counter[k][1] })
    /\ TotalOf(counter) = Len(arg.prs)

AuthorKey(pr) == Shown(pr.createdBy)
RepositoryKey(pr) == pr.repositoryName
ProjectKey(pr) == pr.projectName

(***************************************************************************)
(* C13.  Whatever the list given to analyze_pr_data, every pull request    *)
(* adds exactly 1 to the author, the repository and the project Counter:   *)
(* each Counter holds for a key the number of pull requests with that key, *)
(* its counts sum to the number of pull requests, which is total_prs.  The *)
(* reviewer Counter grows by one for every reviewer of the pull request    *)
(* that is not excluded.                                                   *)
(***************************************************************************)
EachPrCountedOnce ==
    Returned("analyze_pr_data") =>
        /\ CountsEachOnce(ret.counters.authors, AuthorKey)
        /\ CountsEachOnce(ret.counters.repositories, RepositoryKey)
        /\ CountsEachOnce(ret.counters.projects, ProjectKey)
        /\ ret.stats.total_prs = Len(arg.prs)
        /\ DistinctKeys(ret.counters.reviewers)
        /\ TotalOf(ret.counters.reviewers) =
              Cardinality({ r \in Reviews :
                              ~ServiceAccount(Shown(arg.prs[r[1]].reviewers[r[2]])) })
        /\ \A r \in Reviews :
              LET name == Shown(arg.prs[r[1]].reviewers[r[2]])
              IN  ~ServiceAccount(name) =>
                      CountFor(ret.counters.reviewers, name) = Cardinality(ReviewsBy(name))

\* two pull requests by the same author in the same repository of two
\* projects, reviewed by a person and a service account, and by a reviewer
\* without display name and a service account
EachPrCountedOnceWitness ==
    /\ Returned("analyze_pr_data")
    /\ arg.prs = << Pr(Ann, <<Bob, Team>>, "repoA", "P1"), Pr(Ann, <<Missing, Bot>>, "repoA", "P2") >>
    /\ ret.counters.authors = << <<Ann, 2>> >>
    /\ ret.counters.repositories = << <<"repoA", 2>> >>
    /\ ret.counters.projects = << <<"P1", 1>>, <<"P2", 1>> >>
    /\ ret.counters.reviewers = << <<Bob, 1>>, <<Unknown, 1>> >>
    /\ ret.stats.total_prs = 2

\* the number of pull requests of the analysed list by an author
PrsBy(author) == Cardinality({ i \in 1..Len(arg.prs) : AuthorKey(arg.prs[i]) = author })

\* the place of an author's first pull request in the analysed list
FirstSeen(author) ==
    CHOOSE i \in 1..Len(arg.prs) :
        /\ AuthorKey(arg.prs[i]) = author
        /\ \A j \in 1..(i - 1) : AuthorKey(arg.prs[j]) # author

\* the authors of the analysed list
AuthorsOfList == { AuthorKey(arg.prs[i]) : i \in 1..Len(arg.prs) }

(***************************************************************************)
(* C14.  The author ranking holds at most 10 entries (all the authors when *)
(* there are 10 or fewer), each author once with the number of their pull  *)
(* requests, in non-increasing order of that number; authors of equal      *)
(* count stand in the order of their first pull request in the input; and  *)
(* an author left out has no higher count than any author ranked, nor an   *)
(* equal count with an earlier first pull request.                         *)
(***************************************************************************)
AuthorRankingTopTen ==
    Returned("analyze_pr_data") =>
        LET rk == ret.stats.authors
            Ranked == { rk[i][1] : i \in 1..Len(rk) }
        IN  /\ Len(rk) <= 10
            /\ Len(rk) = Min(10, Cardinality(AuthorsOfList))
            /\ DistinctKeys(rk)
            /\ Ranked \subseteq AuthorsOfList
            /\ \A i \in 1..Len(rk) : rk[i][2] = PrsBy(rk[i][1])
            /\ \A i, j \in 1..Len(rk) :
                  i < j => \/ rk[i][2] > rk[j][2]
                           \/ rk[i][2] = rk[j][2] /\ FirstSeen(rk[i][1]) < FirstSeen(rk[j][1])
            /\ \A a \in AuthorsOfList \ Ranked :
                  \A i \in 1..Len(rk) :
                      \/ PrsBy(a) < rk[i][2]
                      \/ PrsBy(a) = rk[i][2] /\ FirstSeen(a) > FirstSeen(rk[i][1])

\* twelve authors, the twelfth with two pull requests and the others with
\* one: the twelfth is ranked first, then the first nine in input order
AuthorRankingWitness ==
    /\ Returned("analyze_pr_data")
    /\ Cardinality(AuthorsOfList) = 12
    /\ Len(ret.stats.authors) = 10
    /\ ret.stats.authors[1] = << People[12], 2 >>
    /\ \A i \in 2..10 : ret.stats.authors[i] = << People[i - 1], 1 >>

\* lines is items' entries of nonzero count, all of them, by descending count
NonzeroByCount(lines, items) ==
    /\ \A k \in 1..Len(lines) : lines[k][2] > 0
    /\ { lines[k] : k \in 1..Len(lines) } = { items[i] : i \in { j \in 1..Len(items) : items[j][2] > 0 } }
    /\ Len(lines) = Cardinality({ j \in 1..Len(items) : items[j][2] > 0 })
    /\ \A k \in 1..(Len(lines) - 1) : lines[k][2] >= lines[k + 1][2]

\* lines is all of items' entries, by descending count
AllByCount(lines, items) ==
    /\ { lines[k] : k \in 1..Len(lines) } = { items[i] : i \in 1..Len(items) }
    /\ Len(lines) = Len(items)
    /\ \A k \in 1..(Len(lines) - 1) : lines[k][2] >= lines[k + 1][2]

\* the multi-project report was printed for the analysed list
MultiProjectReport ==
    Returned("analyze_pr_data") /\ Len(arg.projects) > 1

(***************************************************************************)
(* C15 as claimed.  The per-project breakdown lists the projects with a    *)
(* nonzero count, all of them and only them, by descending count, in the   *)
(* multi-project report and in the organization-wide report.               *)
(***************************************************************************)
BreakdownListsNonzeroOnly ==
    /\ MultiProjectReport => NonzeroByCount(ret.printed.breakdown, ret.counters.projects)
    /\ Returned("org_report") => NonzeroByCount(ret.breakdown, arg.project_counts)

(***************************************************************************)
(* C15 as amended.  The per-project breakdown is in descending order of    *)
(* count and is never cut.  In the multi-project report it lists exactly   *)
(* the projects with a pull request in the result.  In the organization-   *)
(* wide report it lists exactly the projects with a nonzero count when the *)
(* verbosity is below 2, and every discovered project, the zero counts     *)
(* included, at verbosity 2 (-vv).                                         *)
(***************************************************************************)
BreakdownByVerbosity ==
    /\ MultiProjectReport =>
          /\ NonzeroByCount(ret.printed.breakdown, ret.counters.projects)
          /\ { ret.printed.breakdown[k][1] : k \in 1..Len(ret.printed.breakdown) }
                = { arg.prs[i].projectName : i \in 1..Len(arg.prs) }
          /\ \A k \in 1..Len(ret.printed.breakdown) :
                ret.printed.breakdown[k][2] =
                    Cardinality({ i \in 1..Len(arg.prs) :
                                    arg.prs[i].projectName = ret.printed.breakdown[k][1] })
    /\ Returned("org_report") =>
          IF arg.VERBOSITY >= 2
          THEN AllByCount(ret.breakdown, arg.project_counts)
          ELSE NonzeroByCount(ret.breakdown, arg.project_counts)

\* an organization of twelve projects, four of them without pull requests,
\* reported at verbosity 1: the eight others are listed, by descending count
BreakdownWitness ==
    /\ Returned("org_report")
    /\ arg.VERBOSITY = 1
    /\ Len(arg.project_counts) = 12
    /\ Len(ret.breakdown) = 8
    /\ ret.breakdown[1][2] = 2 /\ ret.breakdown[8][2] = 1

\* the position of a repository in the listing of the project in progress
RepoIndex(repo_id) ==
    CHOOSE i \in 1..Len(server[pi].repos) : server[pi].repos[i].name = repo_id

\* the page requests among the calls l, in the order they were made
PageCalls(l) == SelectSeq(l, LAMBDA c : c.call = "page")

\* the step makes a request to the source
RequestStep == pc \in {"projects", "repos", "page"}

(***************************************************************************)
(* C16.  Units are processed in the order of the discovery call (or of the *)
(* caller's list) and one at a time: every request is made for the unit in *)
(* progress, the project at position pi of the listing and, for a page,    *)
(* the repository at position ri of the project's listing; the positions   *)
(* never move back and advance by one; among the page requests of a        *)
(* project, those of a repository all come before those of the next.       *)
(***************************************************************************)
UnitsInOrder ==
    [][ /\ pi' \in {pi, pi + 1}
        /\ (pc = "page" /\ pc' = "page" /\ pi' = pi) => ri' \in {ri, ri + 1}
        /\ (pc \in {"repos", "page"}) =>
              /\ Len(log') = (IF pc = "page" THEN Len(log) + 1 ELSE 1)
              /\ Made.call = pc
              /\ Made.project = server[pi].name
              /\ pc = "page" => Made.repo = server[pi].repos[ri].name
        /\ LET calls == PageCalls(log')
           IN  \A i, j \in 1..Len(calls) :
                  i < j => /\ calls[i].project = calls[j].project
                           /\ RepoIndex(calls[i].repo) <= RepoIndex(calls[j].repo) ]_vars

\* the second project of the run is in progress: both pages of its first
\* repository were requested, then the page of its second repository
UnitsInOrderWitness ==
    /\ pi = 2 /\ Len(projects) >= 2
    /\ \E i, j, k \in 1..Len(log) :
          /\ i < j /\ j < k
          /\ log[i].call = "page" /\ log[i].repo = "repoA" /\ log[i].skip = 0
          /\ log[j].call = "page" /\ log[j].repo = "repoA" /\ log[j].skip = batch_size
          /\ log[k].call = "page" /\ log[k].repo = "repoB"

\* the step ends the fetch of the repository in progress
RepositoryEnds == pc = "page" /\ (pc' # "page" \/ ri' # ri)

\* the step ends the fetch of the project in progress, one of several (the
\* single project's listing is the initial listing of the run)
ProjectEnds ==
    /\ mode # "single"
    /\ pc \in {"repos", "page", "return"} /\ pc' \in {"auth", "repos", "report", "exit"}
    /\ (pc = "repos" => StepRaised)

\* the terminal states of the unit whose fetch a step ends
Completed == ~StepRaised /\ (pc = "page" => repos_skipped' = repos_skipped)
                         /\ (pc = "return" => repositories # <<>>)

Skipped == ~StepRaised /\ (pc = "page" => repos_skipped' = repos_skipped + 1)
                       /\ (pc = "return" => repositories = <<>>)

FailedNonFatal == StepRaised /\ exit_code' # 1

(***************************************************************************)
(* C17.  Each unit goes pending -> fetching -> completed, skipped or       *)
(* failed-non-fatal: a step that ends the fetch of a repository or of a    *)
(* project leaves it in exactly one of these three states, and no later    *)
(* step fetches it again (the positions pi and ri never move back).        *)
(***************************************************************************)
UnitStateMachine ==
    [][ /\ (RepositoryEnds \/ ProjectEnds) =>
              /\ Completed \/ Skipped \/ FailedNonFatal
              /\ ~(Completed /\ Skipped)
              /\ ~(Completed /\ FailedNonFatal)
              /\ ~(Skipped /\ FailedNonFatal)
        /\ pi' >= pi
        /\ (pc = "page" /\ pc' = "page" /\ pi' = pi) => ri' >= ri ]_vars

(***************************************************************************)
(* C18.  No operation is retried.  Among the calls of a project there is   *)
(* at most one listing of its repositories and at most one page request    *)
(* per (repository, offset); the projects of a run are distinct and the    *)
(* run never comes back to one; a step that has answered a request, also   *)
(* with a failure, does not lead to the same request again: after a        *)
(* listing the next listing is the next project's, after a page the next   *)
(* page is at a higher offset of the same repository or belongs to the     *)
(* next repository, and after a failed page always to the next repository. *)
(***************************************************************************)
NoRetry ==
    [][ /\ \A i, j \in 1..Len(log') :
              (i < j /\ log'[i].call \in {"projects", "repos", "page"}) =>
                  << log'[i].call, log'[i].project, log'[i].repo, log'[i].skip >>
                    # << log'[j].call, log'[j].project, log'[j].repo, log'[j].skip >>
        /\ \A i, j \in 1..Len(projects') : i # j => projects'[i] # projects'[j]
        /\ pi' >= pi
        /\ (pc = "projects") => pc' # "projects"
        /\ (pc = "repos" /\ pc' \in {"repos", "auth"}) => pi' = pi + 1
        /\ (pc = "page" /\ pc' = "page") =>
              \/ pi' = pi /\ ri' = ri /\ skip' > skip /\ Made.outcome = "ok"
              \/ pi' = pi /\ ri' = ri + 1 /\ skip' = 0
        /\ (pc = "page" /\ pc' \in {"repos", "auth"}) => pi' = pi + 1 ]_vars

\* the first page request of a repository has failed, and the next request
\* of the run is the first page of the next repository
NoRetryWitness ==
    \E i \in 1..(Len(log) - 1) :
        /\ log[i].call = "page" /\ log[i].outcome \in {"404", "403", "http", "network"}
        /\ log[i].repo = "repoA" /\ log[i].skip = 0
        /\ log[i + 1].call = "page" /\ log[i + 1].repo = "repoB" /\ log[i + 1].skip = 0

\* the head of main has resolved a window and the run goes on
Resolved == fn \in {"ado_main", "org_main"} /\ pc = "done"

\* the head of main has ended, with a window or with sys.exit(1)
HeadEnded == fn \in {"ado_main", "org_main"} /\ pc \in {"done", "exit"}

(***************************************************************************)
(* C19.  For a year in 2000..2030 and a month in 1..12 the resolver gives  *)
(* two dates with start < end: the whole year [Jan 1, Jan 1 of the next    *)
(* year), the month [its first day, the first day of the next month, Jan 1 *)
(* of the next year after December), the current month [its first day, the *)
(* day after today).  The resolver of the other program gives the same     *)
(* window for the same year, month and flags.                              *)
(***************************************************************************)
ResolverWindows ==
    Resolved =>
        LET p == ret.parsed
            s == fromisoformat_date(ret.start_date)
            e == fromisoformat_date(ret.end_date)
            y == int(p.year).value
            m == int(p.month).value
            other == IF fn = "ado_main"
                     THEN org_get_date_range(p.year, p.month, p.use_current_month,
                                             p.use_whole_year, arg.now)
                     ELSE get_date_range(p.year, p.month, p.use_current_month,
                                         p.use_whole_year, arg.now)
        IN  /\ s.ok /\ e.ok
            /\ DateLT(s.value, e.value)
            /\ IF p.use_current_month
               THEN s.value = << arg.now[1], arg.now[2], 1 >> /\ e.value = NextDay(arg.now)
               ELSE IF p.use_whole_year
               THEN s.value = << y, 1, 1 >> /\ e.value = << y + 1, 1, 1 >>
               ELSE /\ s.value = << y, m, 1 >>
                    /\ e.value = IF m = 12 THEN << y + 1, 1, 1 >> ELSE << y, m + 1, 1 >>
            /\ other.start_date = ret.start_date
            /\ other.end_date = ret.end_date

\* the positional arguments of the call
Args == Positional(arg.argv)

\* an argument in the place of the year is no year of 2000..2030, or one in
\* the place of the month no month of 1..12: in no reading of the arguments
\* for two of them, and a number outside 2000..2030 for a single one
InvalidYearOrMonth ==
    IF fn = "org_main"
    THEN \/ Len(Args) \in {1, 2} /\ ~IsYear(Args[1])
         \/ Len(Args) = 2 /\ ~IsMonth(Args[2])
    ELSE \/ Len(Args) = 3 /\ (~IsYear(Args[2]) \/ ~IsMonth(Args[3]))
         \/ Len(Args) = 2 /\ ~IsYear(Args[2]) /\ ~(IsYear(Args[1]) /\ IsMonth(Args[2]))
         \/ Len(Args) = 1 /\ int(Args[1]).ok /\ ~IsYear(Args[1])

\* sys.exit(1) with no window and no request made
ExitedWithoutWindow ==
    /\ pc = "exit" /\ exit_code = 1
    /\ ret.start_date = None /\ ret.end_date = None
    /\ log = <<>>

(***************************************************************************)
(* C20 as claimed.  A year outside [2000, 2030] or a month outside [1, 12] *)
(* given as the year or month argument never yields a window: the run ends *)
(* with exit code 1 before any request is made.                            *)
(***************************************************************************)
InvalidDateExits ==
    (HeadEnded /\ InvalidYearOrMonth) => ExitedWithoutWindow

(***************************************************************************)
(* C20 as amended.  No window is computed from a year outside [2000, 2030] *)
(* or a month outside [1, 12], and the run ends with exit code 1 before    *)
(* any request whenever the arguments are no admitted combination: always  *)
(* in org_pr_count, and with two or three arguments in ado_pr_contribution.*)
(* A single argument of ado_pr_contribution that is no year of 2000..2030  *)
(* (1999, say) is the project name list: the run goes on for these         *)
(* projects with the window of the current month.                          *)
(***************************************************************************)
InvalidDateExitsUnlessProject ==
    /\ (HeadEnded /\ InvalidYearOrMonth /\ ~(fn = "ado_main" /\ Len(Args) = 1))
          => ExitedWithoutWindow
    /\ (HeadEnded /\ fn = "ado_main" /\ Len(Args) = 1 /\ ~IsYear(Args[1])) =>
          /\ pc = "done" /\ exit_code # 1
          /\ ret.parsed.projects = ProjectNames(Args[1])
          /\ ret.parsed.use_current_month
          /\ ret.start_date = strftime(<< arg.now[1], arg.now[2], 1 >>)
          /\ ret.end_date = strftime(NextDay(arg.now))
    /\ (Resolved /\ ~ret.parsed.use_current_month) =>
          /\ IsYear(ret.parsed.year)
          /\ ~ret.parsed.use_whole_year => IsMonth(ret.parsed.month)
    /\ (HeadEnded /\ pc = "exit") => ExitedWithoutWindow

\* ado_pr_contribution called with a project, a year of the range and the
\* month 13 has ended with exit code 1
InvalidDateExitsWitness ==
    /\ fn = "ado_main" /\ Len(Args) = 3
    /\ IsYear(Args[2]) /\ int(Args[3]).ok /\ int(Args[3]).value = 13
    /\ ExitedWithoutWindow

(***************************************************************************)
(* C21.  Over finitely many projects, repositories and pull requests, and  *)
(* whatever requests fail, the run terminates: from every state, also one  *)
(* inside the page loop of a repository, it reaches its exit.              *)
(***************************************************************************)
RunTerminates == <>(pc = "exit")

\* the position a step of the run leaves is never the one it reaches, and the
\* offsets of the page loops stay below the cap of the model
EveryStepAdvances ==
    [][pos' # pos /\ (pc' = "page" => skip' <= MaxSkip)]_vars

\* a run over two projects has ended with its report after a page request
\* and a listing request have failed
RunTerminatesWitness ==
    /\ pc = "exit" /\ exit_code = 0 /\ output = "report"
    /\ Len(projects) = 2 /\ pi = 2
    /\ faults = 2

\* the answers of a page request that fails in transport or protocol (the
\* RequestException family: HTTP status errors and connection errors)
RequestErrors == {"404", "403", "http", "network"}

\* the page request of the step has failed
PageRequestFails == pc = "page" /\ Made.outcome \in RequestErrors

(***************************************************************************)
(* C22.  A page request that fails with a transport or protocol error      *)
(* counts as a page of zero items and is not fatal: the run does not exit, *)
(* what was collected and counted from the earlier pages of the repository *)
(* is kept, the loop of the repository ends without a request at a further *)
(* offset, and the run goes on with the next repository (or returns from   *)
(* the project after its last one).                                        *)
(***************************************************************************)
FailedPageDegradesToEmpty ==
    [][ PageRequestFails =>
          /\ Made.n = 0
          /\ exit_code' = exit_code /\ pc' \in {"page", "return"}
          /\ all_prs' = all_prs
          /\ total_pr_count' = (IF mode = "org" THEN total_pr_count + repo_pr_count
                                ELSE total_pr_count)
          /\ repos_with_prs' = (IF repo_pr_count > 0 THEN repos_with_prs + 1
                                ELSE repos_with_prs)
          /\ UNCHANGED << prs, project_counts, total_prs, pi, repositories >>
          /\ skip' = 0
          /\ IF ri < Len(repositories) THEN pc' = "page" /\ ri' = ri + 1
             ELSE pc' = "return" ]_vars

\* the second page request of a repository has failed after pull requests of
\* its first page were collected, and the next repository is in progress
FailedPageWitness ==
    /\ mode = "multi" /\ pc = "page" /\ ri = 2 /\ skip = 0
    /\ all_prs # <<>>
    /\ \E i \in 1..Len(log) :
          /\ log[i].call = "page" /\ log[i].repo = "repoA"
          /\ log[i].skip = batch_size /\ log[i].outcome = "network"

\* the keys the annotation sets
AnnotationKeys == {"repositoryName", "projectName"}

\* rec is the record src of the source with the names repo_name and project
\* under the annotation keys, and nothing else changed
AnnotationOf(rec, src, repo_name, project) ==
    /\ DOMAIN rec = DOMAIN src \cup AnnotationKeys
    /\ \A key \in DOMAIN src \ AnnotationKeys : rec[key] = src[key]
    /\ rec.repositoryName = repo_name
    /\ rec.projectName = project

\* rec is a record of a repository of a project of the run, annotated with
\* the names of this repository and this project
FromOwnUnit(rec) ==
    \E p \in 1..Len(server) : \E r \in 1..Len(server[p].repos) :
        /\ rec.pullRequestId \in 1..CountOf(server[p].repos[r].prs)
        /\ AnnotationOf(rec,
                        ItemAt(server[p].repos[r].prs, rec.pullRequestId, rec.pullRequestId),
                        server[p].repos[r].name, server[p].name)

(***************************************************************************)
(* C23.  A record leaves get_all_pull_requests annotated with the names of *)
(* the repository and of the project it was fetched from, and changed in   *)
(* nothing else: each record a page step appends is a record of the page   *)
(* just served with the names of the unit in progress, and each record     *)
(* collected or handed to the caller is a source record of the unit it     *)
(* names.                                                                  *)
(***************************************************************************)
RecordsAnnotatedOnly ==
    [][ /\ (pc = "page" /\ mode # "org" /\ ~StepRaised) =>
              \A k \in 1..Len(Appended) :
                 \E i \in 1..Len(SourcePage) :
                    /\ SourcePage[i].pullRequestId = Appended[k].pullRequestId
                    /\ AnnotationOf(Appended[k], SourcePage[i],
                                    server[pi].repos[ri].name, projects[pi])
        /\ \A k \in 1..Len(all_prs') : FromOwnUnit(all_prs'[k])
        /\ \A k \in 1..Len(prs') : FromOwnUnit(prs'[k]) ]_vars

\* a run over two projects has returned records of both, each under the
\* names of its own project and repository
RecordsAnnotatedWitness ==
    /\ mode = "multi" /\ pc = "exit"
    /\ \E i, j \in 1..Len(prs) :
          /\ prs[i].projectName = "P1" /\ prs[i].repositoryName = "repoA"
          /\ prs[j].projectName = "P2" /\ prs[j].repositoryName = "repoB"

\* the listing is in the order of the creation dates, newest first (records
\* whose creation date is no timestamp aside)
SortedNewestFirst(runs) ==
    \A a, b \in 1..Len(runs) :
        (a < b /\ runs[a].created.kind = "iso" /\ runs[b].created.kind = "iso") =>
            DayKey(runs[a].created.date) >= DayKey(runs[b].created.date)

\* the records of the listing inside the window, by their identifiers
InWindowIds(runs) == { i \in 1..CountOf(runs) : InWindow(ItemAt(runs, i, i)) }

\* the records collected for the repository whose loop has ended
CollectedIds ==
    { all_prs[i].pullRequestId :
        i \in { j \in 1..Len(all_prs) : all_prs[j].repositoryName = LastCall.repo } }

\* the repositories of the project in progress up to the one whose loop has ended
ReposSoFar ==
    LET k == CHOOSE i \in 1..Len(server[pi].repos) : server[pi].repos[i].name = LastCall.repo
    IN  SubSeq(server[pi].repos, 1, k)

\* every page request of the project in progress was answered with a page
AllRequestsServed ==
    \A k \in 1..Len(log) : log[k].call = "page" => log[k].outcome = "ok"

(***************************************************************************)
(* C24.  Filtering by creation date over a listing sorted by creation date *)
(* newest first: when the loop of a repository has ended with all its      *)
(* requests answered, the records collected for the repository are exactly *)
(* the records of the whole listing inside the window, the ones a fetch of *)
(* every page would collect; the organization-wide count of a project      *)
(* whose requests were all answered is the number of those records over    *)
(* its repositories so far.                                                *)
(***************************************************************************)
EarlyStopDropsNothing ==
    (use_creation_date /\ LoopEnded /\ AllPagesServed) =>
        IF mode = "org"
        THEN (AllRequestsServed /\ \A i \in 1..Len(ReposSoFar) : SortedNewestFirst(ReposSoFar[i].prs)) =>
                total_pr_count =
                    SumSeq([i \in 1..Len(ReposSoFar) |-> InWindowCount(ReposSoFar[i].prs)])
        ELSE SortedNewestFirst(LoggedRepo.prs) =>
                /\ CollectedIds = InWindowIds(LoggedRepo.prs)
                /\ Cardinality({ j \in 1..Len(all_prs) : all_prs[j].repositoryName = LastCall.repo })
                      = InWindowCount(LoggedRepo.prs)

\* the loop of a sorted listing has ended on the early stop with a page left
\* unrequested, and the records inside the window were all collected
EarlyStopDropsNothingWitness ==
    /\ use_creation_date /\ LoopEnded /\ AllPagesServed
    /\ mode # "org"
    /\ SortedNewestFirst(LoggedRepo.prs)
    /\ ~EndedOnShortPage
    /\ Len(RepoLog) * batch_size < CountOf(LoggedRepo.prs)
    /\ CollectedIds = InWindowIds(LoggedRepo.prs)
    /\ CollectedIds # {}

\* the page a page step has received: get_pull_requests answers a failed
\* request with the empty list
ReceivedPage == IF Made.outcome = "ok" THEN SourcePage ELSE << >>

\* the number of records the run has kept for the project in progress
CountSoFar == IF mode = "org" THEN total_pr_count + repo_pr_count ELSE Len(all_prs)

\* the number of records inside the window among the records of the pages
\* the log holds, a function of the requests and their answers alone
ResponsesCount ==
    LET Runs(c) == (CHOOSE r \in Range(server[pi].repos) : r.name = c.repo).prs
        InPage(c) ==
            IF c.call = "page" /\ c.outcome = "ok"
            THEN Cardinality({ i \in 1..c.n : InWindow(ItemAt(Runs(c), c.skip + i, c.skip + i)) })
            ELSE 0
    IN  SumSeq([k \in 1..Len(log) |-> InPage(log[k])])

(***************************************************************************)
(* C25.  get_all_pull_requests and count_project_prs agree.  On the page a *)
(* step has received, under the run's window and date switch, the filter   *)
(* of the one keeps as many records as the filter of the other counts,     *)
(* both raise or neither does, and both take the same decision on the next *)
(* request; the step does what they say in either program: it keeps that   *)
(* many records and asks for the next offset exactly when the loop is not  *)
(* left.  So the number of records kept for a project is in both programs  *)
(* the same function of the requests and answers so far, and is what the   *)
(* function returns.                                                       *)
(***************************************************************************)
EntryPointsAgreeStep ==
    /\ (PageStep /\ Made.outcome = "raise") => StepRaised
    /\ (PageStep /\ Made.outcome # "raise") =>
          LET page == ReceivedPage
              f == FilterPrs(page, use_creation_date, start_date, end_date,
                             repositories[ri].name, projects[pi])
              c == CountPrs(page, use_creation_date, start_date, end_date)
              ado_stop == LoopEnds(page, EarlyStop(page, use_creation_date, start_date))
              org_stop == LoopEnds(page, OrgEarlyStop(page, use_creation_date, start_date))
          IN  /\ f.raised = c.raised
              /\ Len(f.kept) = c.count
              /\ ado_stop = org_stop
              /\ StepRaised = c.raised
              /\ ~c.raised =>
                    /\ (IF mode = "org" THEN Counted ELSE Len(Appended)) = c.count
                    /\ IF ~org_stop
                       THEN pc' = "page" /\ ri' = ri /\ skip' = NextSkip(skip)
                       ELSE IF ri < Len(repositories)
                       THEN pc' = "page" /\ ri' = ri + 1 /\ skip' = 0
                       ELSE pc' = "return" /\ skip' = 0
    /\ pc \in {"page", "return"} => CountSoFar = ResponsesCount
    /\ pc = "return" =>
          /\ mode = "org" => project_counts' = Append(project_counts, <<projects[pi], ResponsesCount>>)
          /\ mode = "single" => Len(prs') = ResponsesCount
          /\ mode = "multi" => Len(prs') = Len(prs) + ResponsesCount

EntryPointsAgree == [][EntryPointsAgreeStep]_vars

\* the count of a project is about to be returned after an early stop, a
\* failed request and kept records
EntryPointsAgreeWitness ==
    /\ pc = "return"
    /\ mode = "org"
    /\ use_creation_date
    /\ total_pr_count > 0
    /\ total_pr_count = ResponsesCount
    /\ \E k \in 1..Len(log) : log[k].call = "page" /\ log[k].outcome \in RequestErrors
    /\ \E k \in 1..Len(log) : log[k].call = "page" /\ log[k].n = batch_size /\ HeadBeforeWindow(k)

\* the records a step has added to the combined result
Extended == SubSeq(prs', Len(prs) + 1, Len(prs'))

(***************************************************************************)
(* C26.  Several projects: a step that ends the fetch of a project with an *)
(* exception leaves the combined result as it is, whatever the project's   *)
(* repositories had given before, and the run goes on with the next        *)
(* project or the report; the combined result changes only when a fetch    *)
(* returns, and then by appending all the records of that project and      *)
(* nothing else.                                                           *)
(***************************************************************************)
FailedProjectAddsNothingStep ==
    mode = "multi" =>
        /\ ProjectRaises =>
              /\ prs' = prs
              /\ exit_code' = exit_code
              /\ IF pi < Len(projects)
                 THEN pi' = pi + 1 /\ pc' = "auth"
                 ELSE pc' = "report"
        /\ prs' # prs =>
              /\ pc = "return"
              /\ prs' = prs \o all_prs
              /\ \A i \in 1..Len(Extended) : Extended[i].projectName = projects[pi]
              /\ Len(Extended) = ResponsesCount

FailedProjectAddsNothing == [][FailedProjectAddsNothingStep]_vars

\* the second project's fetch has ended with an exception after one of its
\* repositories had given records of the window; the combined result holds
\* the first project's records and none of the second's
FailedProjectAddsNothingWitness ==
    /\ mode = "multi"
    /\ pc = "report"
    /\ pi = 2
    /\ prs # << >>
    /\ LastCall.call = "page" /\ LastCall.outcome = "raise"
    /\ \E k \in 1..Len(log) :
          /\ log[k].call = "page" /\ log[k].outcome = "ok"
          /\ log[k].repo # LastCall.repo
          /\ \E i \in 1..log[k].n :
                InWindow(ItemAt(server[pi].repos[1].prs, log[k].skip + i, log[k].skip + i))
    /\ \A i \in 1..Len(prs) : prs[i].projectName = projects[1]

\* the number of projects the organization-wide run has processed
ProjectsSeen ==
    IF pc \in {"repos", "page", "return"} THEN pi - 1
    ELSE IF pc = "report" \/ (pc = "exit" /\ exit_code = 0) THEN Len(projects)
    ELSE 0

\* the fetch of the last project processed has ended with an exception
LastProjectFailed ==
    /\ pc \in {"repos", "report", "exit"}
    /\ log # << >>
    /\ LastCall.call \in {"repos", "page"}
    /\ LastCall.outcome = "raise"

(***************************************************************************)
(* C27.  Organization-wide run: the per-project counts hold one entry for  *)
(* each project processed so far, in the order of the discovery and under  *)
(* the project's name, and at the end one for every discovered project;    *)
(* the total is the sum of the entries; a project whose fetch has ended    *)
(* with an exception has the entry 0.                                      *)
(***************************************************************************)
CountsCoverProjectsSeen ==
    mode = "org" =>
        /\ Len(project_counts) = ProjectsSeen
        /\ \A i \in 1..Len(project_counts) : project_counts[i][1] = projects[i]
        /\ \A i, j \in 1..Len(project_counts) :
              project_counts[i][1] = project_counts[j][1] => i = j
        /\ total_prs = SumSeq([i \in 1..Len(project_counts) |-> project_counts[i][2]])
        /\ LastProjectFailed =>
              project_counts[Len(project_counts)] = <<LastCall.project, 0>>

\* the run has reported on two projects: the first with records of the
\* window, the second failed after one of its repositories had been counted
CountsCoverProjectsSeenWitness ==
    /\ mode = "org"
    /\ pc = "exit" /\ exit_code = 0 /\ output = "report"
    /\ Len(projects) = 2
    /\ Len(project_counts) = 2
    /\ project_counts[1][2] > 0
    /\ project_counts[2] = <<projects[2], 0>>
    /\ total_prs = project_counts[1][2]
    /\ LastProjectFailed
    /\ \E k \in 1..Len(log) : log[k].call = "page" /\ log[k].outcome = "ok" /\ log[k].n > 0

\* the last call of the run is a credential acquisition that gave no token
CredentialsRefused ==
    log # << >> /\ LastCall.call = "auth" /\ LastCall.outcome = "fail"

(***************************************************************************)
(* C28.  Several projects: the fetch of each project is preceded by one    *)
(* credential acquisition of its own, and an acquisition that gives no     *)
(* token, for the first project or a later one, ends the run with exit     *)
(* code 1 and without report or no-data message, whatever the projects     *)
(* before have given; exit code 1 has no other cause.                      *)
(***************************************************************************)
CredentialFailureEndsRun ==
    mode = "multi" =>
        /\ pc = "repos" =>
              /\ Len(log) = 1
              /\ log[1].call = "auth" /\ log[1].outcome = "ok" /\ log[1].project = projects[pi]
        /\ pc \in {"page", "return"} =>
              \A k \in 1..Len(log) : log[k].call # "auth" /\ log[k].project = projects[pi]
        /\ CredentialsRefused =>
              /\ pc = "exit"
              /\ exit_code = 1
              /\ output = "none"
              /\ LastCall.project = projects[pi]
        /\ exit_code = 1 => CredentialsRefused

\* the credential acquisition for the second project has failed after the
\* first project had given records: exit code 1, nothing reported
CredentialFailureEndsRunWitness ==
    /\ mode = "multi"
    /\ pi = 2
    /\ prs # << >>
    /\ CredentialsRefused
    /\ LastCall.project = projects[2]
    /\ pc = "exit" /\ exit_code = 1 /\ output = "none"
====
